---- MODULE Spec2Model ----
(***************************************************************************)
(* Verification model of the mine-proximity join scripts of the AMD water  *)
(* quality pipeline (archive_experimental/mine_proximity_join_pa*.py,      *)
(* pa10_joining.py) and of its helpers: fetch_arcgis_full (Part IV),       *)
(* safe_read_csv_to_parquet (Part V), cleanup_unify (Part VI), pick_best   *)
(* (Part VII), the HUC12 ranking (Part VIII) and the parallel / sequential *)
(* chunk computation (Part IX).                                            *)
(*                                                                         *)
(* Part I  : the checkpointed chunk loop of mine_proximity_join_pa6 / pa8  *)
(*           (start-up / resume, layer loop, chunk loop, checkpoint write, *)
(*           append to the master output, final cleanup, interruption and  *)
(*           restart of the script).                                       *)
(***************************************************************************)
EXTENDS Integers, Sequences, FiniteSets, TLC

VARIABLES
    script,      \* which script is running: "pa6" or "pa8"
    nrec,        \* len(chem): number of chemistry records
    nonempty,    \* the mine layers whose GeoDataFrame is not empty
    ckpt,        \* CHECKPOINT_DIR: file names, ordered by modification time
    out,         \* OUT_PATH: the master parquet file, a sequence of row blocks
    qclog,       \* QC_LOG: the lines appended by log_error
    pc,          \* position of the script
    run,         \* how many times the script has been started
    start_idx,   \* start_idx of the running script
    li,          \* position in layers.items() (1-based)
    chunks,      \* the list `chunks` of the current layer
    ci,          \* enumerate index i of the chunk loop
    written,     \* history: checkpoint files written by the running script
    processed,   \* history: chunks processed by the running script
    startFiles,  \* history: content of CHECKPOINT_DIR when the script started
    listed,      \* history: os.listdir(CHECKPOINT_DIR) of the final cleanup
    \* ---- Part II: one call of compute_nearest_chunk (pa6 / pa8)
    cscript,     \* the script whose compute_nearest_chunk is called
    df_chunk,    \* df_chunk.geometry: the geometries of the chunk's rows
    target,      \* target_gdf.geometry: the coordinates of the layer's features
    cpc,         \* position inside the call
    cres,        \* the (index, distance) pairs collected so far / returned
    clog,        \* the lines the call appended to QC_LOG
    cfailed,     \* history: the rows for which an exception was raised
    cchunkFailed,\* history: an exception was raised outside the row loop
    \* ---- Part III: the proximity-join scripts pa, pa2..pa5, pa10_joining
    pscript,     \* the script that runs
    rawSites,    \* the geometries of the chemistry rows as read
    layersG,     \* layers: sequence of [name, feats] in dictionary order
    ncpu,        \* mp.cpu_count()
    ppc,         \* position of the script
    pl,          \* position in the layer loop (1-based)
    tab,         \* chem / sites: the rows of the table being built
    colOrder,    \* the columns of the table, in order
    results,     \* pa: the list `results` of per-layer distance frames
    ppath,       \* history: how each layer's columns were computed
    \* ---- Part IV: pa9_processing.fetch_arcgis_full
    fcache,      \* data_cache: per out_name, the cached file or "absent"
    fpc,         \* position inside the call
    flabel,      \* out_name of the running call
    fids,        \* len(ids): number of objectIds returned by the id query
    fi,          \* the loop variable i (offset of the batch in ids)
    frames,      \* the list `frames`
    fret,        \* the value returned by the call
    fprinted,    \* the warnings printed by the call
    fcalls,      \* how many calls have been made
    \* ---- Part V: analyze_chemistry_mine_proximity.safe_read_csv_to_parquet
    csv_path,    \* the argument `path`
    csv_rows,    \* the data lines of the CSV: "ok" or "bad" (malformed)
    pyarrow_installed, \* whether `import pyarrow.csv` succeeds
    out_arg,     \* the argument out_parquet of the call
    out_parquet, \* the variable out_parquet (initially the argument)
    vpc,         \* position inside the call
    csv_df,      \* df: the rows loaded
    bad_lines,   \* the list bad_lines
    csv_log,     \* the entries appended to LOG_PATH
    parquet_files, \* the paths at which the call wrote a Parquet file
    csv_reader,  \* history: the reader that produced df
    csv_why,     \* history: why the pandas fallback was entered
    csv_skipped, \* history: how many malformed rows pandas skipped
    \* ---- Part VI: src/cleanup_unify.py
    udf,         \* df: column name -> the cells of the column
    uloaded,     \* history: the table as loaded
    upc,         \* position of the script
    ua,          \* position in the analyte loop (1-based)
    usaved,      \* the table written to out_path
    re_strict,   \* the interpreter rejects a global flag inside a pattern
    \* ---- Part VII: pa13_dashboard.pick_best
    kdf,         \* df: column name -> the cells of the column
    candidates,  \* the argument candidates
    min_nonnull, \* the argument min_nonnull
    kpc,         \* position inside the call
    ki,          \* position in the loop over candidates (1-based)
    best,        \* the variable best
    best_n,      \* the variable best_n
    \* ---- Part VIII: watershed_health_huc12 / watershed_health_huc12_auto
    rscript,     \* the script that runs
    rrecs,       \* the records: [huc, si] (HUC12 id, Sickness_Index)
    summary,     \* the frame `summary`: rows [huc, mean, Rank]
    rpc,         \* position of the script
    \* ---- Part IX: the parallel / sequential chunk computation of pa6, pa8
    sscript,     \* the script that runs
    scpu,        \* os.cpu_count()
    schunk,      \* chunk.geometry: the geometries of the chunk's rows
    sfeats,      \* gdf.geometry: the coordinates of the layer's features
    stree_ok,    \* whether STRtree(gdf.geometry) can be built
    spc,         \* position inside the pass of the chunk loop
    splits,      \* the list `splits`
    sresults,    \* the list `results` of the frames returned so far
    smerged,     \* the frame `merged`
    sout,        \* the frame out_chunk
    spath        \* history: the path that produced `merged`

joinVars == <<script, nrec, nonempty, ckpt, out, qclog, pc, run, start_idx,
              li, chunks, ci, written, processed, startFiles, listed>>

chunkVars == <<cscript, df_chunk, target, cpc, cres, clog, cfailed, cchunkFailed>>

pipeVars == <<pscript, rawSites, layersG, ncpu, ppc, pl, tab, colOrder,
              results, ppath>>

fetchVars == <<fcache, fpc, flabel, fids, fi, frames, fret, fprinted, fcalls>>

csvVars == <<csv_path, csv_rows, pyarrow_installed, out_arg, out_parquet, vpc, csv_df,
             bad_lines, csv_log, parquet_files, csv_reader, csv_why,
             csv_skipped>>

unifyVars == <<udf, uloaded, upc, ua, usaved, re_strict>>

pickVars == <<kdf, candidates, min_nonnull, kpc, ki, best, best_n>>

rankVars == <<rscript, rrecs, summary, rpc>>

splitVars == <<sscript, scpu, schunk, sfeats, stree_ok, spc, splits, sresults,
               smerged, sout, spath>>

auxVars == <<fetchVars, csvVars, unifyVars, pickVars, rankVars, splitVars>>

mainVars == <<joinVars, chunkVars, pipeVars>>

\* what the actions of one part leave alone
fetchOthers == <<mainVars, csvVars, unifyVars, pickVars, rankVars, splitVars>>
csvOthers == <<mainVars, fetchVars, unifyVars, pickVars, rankVars, splitVars>>
unifyOthers == <<mainVars, fetchVars, csvVars, pickVars, rankVars, splitVars>>
pickOthers == <<mainVars, fetchVars, csvVars, unifyVars, rankVars, splitVars>>
rankOthers == <<mainVars, fetchVars, csvVars, unifyVars, pickVars, splitVars>>
splitOthers == <<mainVars, fetchVars, csvVars, unifyVars, pickVars, rankVars>>

vars == <<mainVars, auxVars>>

(***************************************************************************)
(* Program constants and bounds                                            *)
(***************************************************************************)
CHUNK_SIZE_PA6 == 50000
CHUNK_SIZE_PA8 == 30000

MaxChunks == 2      \* the record count goes up to MaxChunks full chunks + 1
MaxRuns == 2        \* the script is started at most MaxRuns times
MaxFail == 1        \* at most MaxFail os.remove failures per reset

CHUNK_SIZE == IF script = "pa6" THEN CHUNK_SIZE_PA6 ELSE CHUNK_SIZE_PA8

\* layers = {"AML": ..., "Bituminous": ..., "Anthracite": ...} in dict order
LayerOrder == <<"AML", "Bituminous", "Anthracite">>
LayerNames == {LayerOrder[k] : k \in 1..Len(LayerOrder)}

Min2(a, b) == IF a <= b THEN a ELSE b

(***************************************************************************)
(* File names.  A name is kept as the list of its "_"-separated parts,     *)
(* each part the list of its "."-separated pieces; a piece is text or a    *)
(* decimal number.                                                         *)
(***************************************************************************)
Str(s) == [kind |-> "str", s |-> s, n |-> 0]
Num(n) == [kind |-> "num", s |-> "", n |-> n]

\* f"{name}_chunk_{i*CHUNK_SIZE}.parquet"
CheckpointName(name, off) ==
    << <<Str(name)>>, <<Str("chunk")>>, <<Num(off), Str("parquet")>> >>

\* int(piece): ok with the number, or not ok (ValueError) for other text
ParseInt(piece) == [ok |-> piece.kind = "num", val |-> piece.n]

\* f.endswith(".parquet")
EndsWithParquet(f) == LET last == f[Len(f)] IN last[Len(last)] = Str("parquet")

FileSet(dir) == {dir[k] : k \in 1..Len(dir)}

\* max(files, key=os.path.getmtime): the directory is kept in mtime order
LatestByMtime(dir) ==
    LET idx == {k \in 1..Len(dir) : EndsWithParquet(dir[k])}
    IN dir[CHOOSE k \in idx : \A j \in idx : j <= k]

HasParquet(dir) == \E k \in 1..Len(dir) : EndsWithParquet(dir[k])

\* to_parquet(path): creates the file or rewrites it; either way it becomes
\* the most recently modified one
WriteFile(dir, f) == Append(SelectSeq(dir, LAMBDA g : g # f), f)

\* pa6: int(os.path.basename(last_cp).split("_")[1].split(".")[0])
Pa6ResumeIndex(f) == ParseInt(f[2][1])

\* pa8: int(latest.split("_")[-1].split(".")[0])
Pa8ResumeIndex(f) == ParseInt(f[Len(f)][1])

\* pa8 latest_checkpoint(): 0 if none or broken
latest_checkpoint(dir) ==
    IF ~HasParquet(dir) THEN 0
    ELSE LET v == Pa8ResumeIndex(LatestByMtime(dir))
         IN IF v.ok THEN v.val ELSE 0

(***************************************************************************)
(* Chunks.  A chunk chem.iloc[lo:hi] is kept as the pair of its bounds.    *)
(***************************************************************************)
\* a slice that is one record too long (i:i+CHUNK_SIZE+1)
ChunkSliceOverlap(i, cs, n) == [lo |-> i, hi |-> Min2(i + cs + 1, n)]

\* chem.iloc[i:i+CHUNK_SIZE]: the slice is clipped at len(chem)
ChunkSlice(i, cs, n) == [lo |-> i, hi |-> Min2(i + cs, n)]

\* [chem.iloc[i:i+CHUNK_SIZE] for i in range(start_idx, len(chem), CHUNK_SIZE)]
ChunkList(start, n, cs) ==
    LET cnt == IF start >= n THEN 0 ELSE ((n - start) + cs - 1) \div cs
    IN [k \in 1..cnt |-> ChunkSlice(start + (k - 1) * cs, cs, n)]

\* out_chunk: the chunk's rows side by side with the columns of one layer
OutChunk(name, chunk) == [layer |-> name, lo |-> chunk.lo, hi |-> chunk.hi]

(***************************************************************************)
(* Initial state: nothing on disk, the script about to start               *)
(***************************************************************************)
RecCounts(cs) == {k * cs + d : k \in 1..MaxChunks, d \in {0, 1}}

JoinStart ==
    /\ script \in {"pa6", "pa8"}
    /\ nrec \in RecCounts(IF script = "pa6" THEN CHUNK_SIZE_PA6 ELSE CHUNK_SIZE_PA8)
    /\ nonempty \in SUBSET LayerNames
    /\ ckpt = <<>>
    /\ out = <<>>
    /\ qclog = <<>>
    /\ pc = "start"
    /\ run = 1
    /\ start_idx = 0
    /\ li = 1
    /\ chunks = <<>>
    /\ ci = 0
    /\ written = {}
    /\ processed = {}
    /\ startFiles = <<>>
    /\ listed = {}

(***************************************************************************)
(* reset_checkpoints() / the cleanup loop of pa6: every file of the        *)
(* directory is removed; a removal that raises is logged and skipped.      *)
(***************************************************************************)
FailSets(dir) == {F \in SUBSET FileSet(dir) : Cardinality(F) <= MaxFail}

RemoveAll(dir, fail) == SelectSeq(dir, LAMBDA f : f \in fail)

CleanupLog(dir, fail) ==
    LET kept == RemoveAll(dir, fail)
    IN [k \in 1..Len(kept) |-> [kind |-> "cleanup", file |-> kept[k]]]

(***************************************************************************)
(* Start-up                                                                *)
(***************************************************************************)
\* pa6 lines 131-137: completed = load_checkpoints(); resume block
Pa6Startup ==
    /\ UNCHANGED <<chunkVars, pipeVars, auxVars>>
    /\ pc = "start" /\ script = "pa6"
    /\ startFiles' = ckpt
    /\ IF HasParquet(ckpt)
       THEN LET v == Pa6ResumeIndex(LatestByMtime(ckpt))
            IN IF v.ok
               THEN pc' = "layer" /\ start_idx' = v.val
               ELSE pc' = "crashed" /\ start_idx' = 0
       ELSE pc' = "layer" /\ start_idx' = 0
    /\ li' = 1
    /\ UNCHANGED <<script, nrec, nonempty, ckpt, out, qclog, run, chunks, ci,
                   written, processed, listed>>

\* pa8 lines 155-160: start_idx = latest_checkpoint(); fresh start resets
Pa8Startup ==
    /\ UNCHANGED <<chunkVars, pipeVars, auxVars>>
    /\ pc = "start" /\ script = "pa8"
    /\ startFiles' = ckpt
    /\ start_idx' = latest_checkpoint(ckpt)
    /\ IF latest_checkpoint(ckpt) > 0
       THEN UNCHANGED <<ckpt, qclog>>
       ELSE \E fail \in FailSets(ckpt) :
               /\ ckpt' = RemoveAll(ckpt, fail)
               /\ qclog' = qclog \o CleanupLog(ckpt, fail)
    /\ pc' = "layer"
    /\ li' = 1
    /\ UNCHANGED <<script, nrec, nonempty, out, run, chunks, ci,
                   written, processed, listed>>

(***************************************************************************)
(* Layer loop                                                              *)
(***************************************************************************)
\* if gdf.empty: continue
SkipLayer ==
    /\ UNCHANGED <<chunkVars, pipeVars, auxVars>>
    /\ pc = "layer" /\ li <= Len(LayerOrder)
    /\ LayerOrder[li] \notin nonempty
    /\ li' = li + 1
    /\ UNCHANGED <<script, nrec, nonempty, ckpt, out, qclog, pc, run, start_idx,
                   chunks, ci, written, processed, startFiles, listed>>

\* chunks = [...]; the chunk loop starts with i = 0
BeginLayer ==
    /\ UNCHANGED <<chunkVars, pipeVars, auxVars>>
    /\ pc = "layer" /\ li <= Len(LayerOrder)
    /\ LayerOrder[li] \in nonempty
    /\ chunks' = ChunkList(start_idx, nrec, CHUNK_SIZE)
    /\ ci' = 0
    /\ pc' = "chunk"
    /\ UNCHANGED <<script, nrec, nonempty, ckpt, out, qclog, run, start_idx, li,
                   written, processed, startFiles, listed>>

\* pa8 only: if os.path.exists(checkpoint_file): continue
SkipChunk ==
    /\ UNCHANGED <<chunkVars, pipeVars, auxVars>>
    /\ pc = "chunk" /\ ci < Len(chunks)
    /\ script = "pa8"
    /\ CheckpointName(LayerOrder[li], ci * CHUNK_SIZE) \in FileSet(ckpt)
    /\ ci' = ci + 1
    /\ UNCHANGED <<script, nrec, nonempty, ckpt, out, qclog, pc, run, start_idx,
                   li, chunks, written, processed, startFiles, listed>>

\* nearest search of the chunk, out_chunk, out_chunk.to_parquet(checkpoint)
ProcessChunk ==
    /\ UNCHANGED <<chunkVars, pipeVars, auxVars>>
    /\ pc = "chunk" /\ ci < Len(chunks)
    /\ LET file == CheckpointName(LayerOrder[li], ci * CHUNK_SIZE)
       IN /\ script = "pa8" => file \notin FileSet(ckpt)
          /\ ckpt' = WriteFile(ckpt, file)
          /\ written' = written \cup {file}
          /\ processed' = processed \cup
                 {[chunk |-> OutChunk(LayerOrder[li], chunks[ci + 1]),
                   file |-> file]}
    /\ pc' = "append"
    /\ UNCHANGED <<script, nrec, nonempty, out, qclog, run, start_idx, li,
                   chunks, ci, startFiles, listed>>

\* append_to_output(out_chunk): existing rows, then the chunk's rows
append_to_output(file, df) == Append(file, df)

AppendChunk ==
    /\ UNCHANGED <<chunkVars, pipeVars, auxVars>>
    /\ pc = "append"
    /\ out' = append_to_output(out, OutChunk(LayerOrder[li], chunks[ci + 1]))
    /\ ci' = ci + 1
    /\ pc' = "chunk"
    /\ UNCHANGED <<script, nrec, nonempty, ckpt, qclog, run, start_idx, li,
                   chunks, written, processed, startFiles, listed>>

\* a layer loop that removes the checkpoints whenever a layer is finished
FinishLayerCleansUp ==
    /\ UNCHANGED <<chunkVars, pipeVars, auxVars>>
    /\ pc = "chunk" /\ ci = Len(chunks)
    /\ li' = li + 1
    /\ pc' = "layer"
    /\ ckpt' = <<>>
    /\ UNCHANGED <<script, nrec, nonempty, out, qclog, run, start_idx,
                   chunks, ci, written, processed, startFiles, listed>>

\* the chunk loop is exhausted: next layer
FinishLayer ==
    /\ UNCHANGED <<chunkVars, pipeVars, auxVars>>
    /\ pc = "chunk" /\ ci = Len(chunks)
    /\ li' = li + 1
    /\ pc' = "layer"
    /\ UNCHANGED <<script, nrec, nonempty, ckpt, out, qclog, run, start_idx,
                   chunks, ci, written, processed, startFiles, listed>>

(***************************************************************************)
(* Final cleanup, after the layer loop                                     *)
(***************************************************************************)
Cleanup ==
    /\ UNCHANGED <<chunkVars, pipeVars, auxVars>>
    /\ pc = "layer" /\ li > Len(LayerOrder)
    /\ listed' = FileSet(ckpt)
    /\ \E fail \in FailSets(ckpt) :
          /\ ckpt' = RemoveAll(ckpt, fail)
          /\ qclog' = qclog \o CleanupLog(ckpt, fail)
    /\ pc' = "done"
    /\ UNCHANGED <<script, nrec, nonempty, out, run, start_idx, li, chunks, ci,
                   written, processed, startFiles>>

(***************************************************************************)
(* The environment: the script is killed, and later started again          *)
(***************************************************************************)
Interrupt ==
    /\ UNCHANGED <<chunkVars, pipeVars, auxVars>>
    /\ pc \in {"layer", "chunk", "append"}
    /\ pc' = "stopped"
    /\ UNCHANGED <<script, nrec, nonempty, ckpt, out, qclog, run, start_idx, li,
                   chunks, ci, written, processed, startFiles, listed>>

Restart ==
    /\ UNCHANGED <<chunkVars, pipeVars, auxVars>>
    /\ pc = "stopped" /\ run < MaxRuns
    /\ run' = run + 1
    /\ pc' = "start"
    /\ start_idx' = 0 /\ li' = 1 /\ chunks' = <<>> /\ ci' = 0
    /\ written' = {} /\ processed' = {} /\ startFiles' = <<>> /\ listed' = {}
    /\ UNCHANGED <<script, nrec, nonempty, ckpt, out, qclog>>

JoinIdle ==
    /\ script = "pa8" /\ nrec = 0 /\ nonempty = {} /\ ckpt = <<>> /\ out = <<>>
    /\ qclog = <<>> /\ pc = "idle" /\ run = 0 /\ start_idx = 0 /\ li = 1
    /\ chunks = <<>> /\ ci = 0 /\ written = {} /\ processed = {}
    /\ startFiles = <<>> /\ listed = {}

ChunkIdle ==
    /\ cscript = "pa8" /\ df_chunk = <<>> /\ target = <<>> /\ cpc = "idle"
    /\ cres = <<>> /\ clog = <<>> /\ cfailed = {} /\ cchunkFailed = FALSE

PipeIdle ==
    /\ pscript = "pa" /\ rawSites = <<>> /\ layersG = <<>> /\ ncpu = 1
    /\ ppc = "idle" /\ pl = 1 /\ tab = <<>> /\ colOrder = <<>>
    /\ results = <<>> /\ ppath = <<>>

FetchLayers == {"bituminous.geojson", "anthracite.geojson"}

NoFile == [exists |-> FALSE, data |-> <<>>]

FetchIdle ==
    /\ fcache = [l \in FetchLayers |-> NoFile] /\ fpc = "idle"
    /\ flabel = "bituminous.geojson" /\ fids = 0 /\ fi = 0 /\ frames = <<>>
    /\ fret = <<>> /\ fprinted = <<>> /\ fcalls = 0

NoneArg == <<>>

CsvIdle ==
    /\ csv_path = <<>> /\ csv_rows = <<>> /\ pyarrow_installed = FALSE
    /\ out_arg = NoneArg /\ out_parquet = NoneArg /\ vpc = "idle" /\ csv_df = <<>>
    /\ bad_lines = <<>> /\ csv_log = <<>> /\ parquet_files = {}
    /\ csv_reader = "none" /\ csv_why = "none" /\ csv_skipped = 0

NoTable == <<>>

UnifyIdle ==
    /\ udf = NoTable /\ uloaded = NoTable /\ upc = "idle" /\ ua = 1
    /\ usaved = NoTable /\ re_strict = FALSE

NoName == "<None>"

PickIdle ==
    /\ kdf = NoTable /\ candidates = <<>> /\ min_nonnull = 0 /\ kpc = "idle"
    /\ ki = 1 /\ best = NoName /\ best_n = -1

RankIdle ==
    /\ rscript = "huc12" /\ rrecs = <<>> /\ summary = <<>> /\ rpc = "idle"

SplitIdle ==
    /\ sscript = "pa8" /\ scpu = 1 /\ schunk = <<>> /\ sfeats = <<>>
    /\ stree_ok = TRUE /\ spc = "idle" /\ splits = <<>> /\ sresults = <<>>
    /\ smerged = <<>> /\ sout = <<>> /\ spath = "none"

MainIdle == JoinIdle /\ ChunkIdle /\ PipeIdle

AuxIdle == FetchIdle /\ CsvIdle /\ UnifyIdle /\ PickIdle /\ RankIdle /\ SplitIdle

JoinInit == JoinStart /\ ChunkIdle /\ PipeIdle /\ AuxIdle

JoinNext ==
    \/ Pa6Startup \/ Pa8Startup
    \/ SkipLayer \/ BeginLayer
    \/ SkipChunk \/ ProcessChunk \/ AppendChunk \/ FinishLayer
    \/ Cleanup
    \/ Interrupt \/ Restart

Spec == JoinInit /\ [][JoinNext]_vars

(***************************************************************************)
(* Properties of the checkpointed chunk loop                               *)
(***************************************************************************)
OutBlocks == {out[k] : k \in 1..Len(out)}

\* the rows of the master output that carry the columns of layer name and
\* belong to record r
HasRow(name, r) ==
    \E b \in OutBlocks : b.layer = name /\ b.lo <= r /\ r < b.hi

\* Every record 0..nrec-1 has a row with the columns of layer name.  The
\* smallest record without such a row is record 0 or the upper bound of a
\* block of that layer, so only those records are inspected.
Covered(name) ==
    \A r \in {0} \cup {b.hi : b \in {c \in OutBlocks : c.layer = name}} :
        r < nrec => HasRow(name, r)

RECURSIVE RowCountFrom(_, _)
RowCountFrom(file, k) ==
    IF k > Len(file) THEN 0
    ELSE (file[k].hi - file[k].lo) + RowCountFrom(file, k + 1)

\* number of rows of a parquet file
RowCount(file) == RowCountFrom(file, 1)

\* the layers whose index and distance columns are filled in the rows of a
\* block: out_chunk has the columns of the one layer it was computed for
LayerColumns(b) == {b.layer}

\* the <offset> in '<layer>_chunk_<offset>.parquet'
CheckpointOffset(f) == f[3][1].n

\* C1 (as claimed): in pa8, a run that was interrupted, started again and ran
\* to completion leaves, for every non-empty layer, a result row for every
\* chemistry record in the master output (stated for the runs in which no
\* checkpoint removal failed).
C1_ResumeLeavesNoRecordUnprocessed ==
    (script = "pa8" /\ run > 1 /\ pc = "done" /\ qclog = <<>>)
        => \A name \in nonempty : Covered(name)

\* C2 (as claimed): in pa6, when the checkpoint directory holds a checkpoint
\* of an earlier run at start-up, start_idx becomes the offset of the most
\* recently modified checkpoint and the run goes on without an error.
C2_Pa6AutoResume ==
    (script = "pa6" /\ pc # "start" /\ HasParquet(startFiles))
        => /\ pc # "crashed"
           /\ start_idx = CheckpointOffset(LatestByMtime(startFiles))

\* C3 (as claimed): after a complete run that started with no output file and
\* no checkpoints (and at least one non-empty layer), the master output has
\* exactly one row per chemistry record and every row carries the columns of
\* every non-empty layer.
C3_OneMergedRowPerRecord ==
    (run = 1 /\ pc = "done" /\ nonempty # {})
        => /\ RowCount(out) = nrec
           /\ \A b \in OutBlocks : LayerColumns(b) = nonempty

\* C4: the chunks of a layer partition the records start_idx..nrec-1: they
\* are consecutive, do not overlap, keep the original order and hold between
\* 1 and CHUNK_SIZE records; every processed chunk has its checkpoint file
\* written and, once its iteration is over, its rows in the master output.
C4_ChunksPartitionAndPersist ==
    /\ pc \in {"chunk", "append"} =>
          /\ Len(chunks) = 0 => start_idx >= nrec
          /\ Len(chunks) > 0 =>
                chunks[1].lo = start_idx /\ chunks[Len(chunks)].hi = nrec
          /\ \A k \in 1..Len(chunks) :
                /\ chunks[k].lo < chunks[k].hi
                /\ chunks[k].hi - chunks[k].lo <= CHUNK_SIZE
          /\ \A k \in 1..(Len(chunks) - 1) : chunks[k].hi = chunks[k + 1].lo
    /\ pc \in {"layer", "chunk", "append"} =>
          \A p \in processed : p.file \in FileSet(ckpt) /\ p.file \in written
    /\ pc \in {"layer", "chunk"} =>
          \A p \in processed : p.chunk \in OutBlocks
    /\ pc = "append" =>
          \E p \in processed :
              /\ p.chunk = OutChunk(LayerOrder[li], chunks[ci + 1])
              /\ \A q \in processed \ {p} : q.chunk \in OutBlocks

\* C4 witness: a layer's chunk loop has processed two chunks, the last one
\* shorter than CHUNK_SIZE.
C4_Witness ==
    /\ pc = "chunk" /\ Len(chunks) = 2 /\ ci = 2
    /\ chunks[2].hi - chunks[2].lo < CHUNK_SIZE
    /\ Cardinality({p \in processed : p.chunk.layer = LayerOrder[li]}) = 2

\* C5: the final cleanup runs only after the layer loop has finished every
\* layer; it removes every file of the checkpoint directory, except that a
\* file whose removal fails stays and is logged, and the script still
\* finishes; until then the checkpoints written by the run are all kept.
C5_CleanupOnlyAfterLastLayer ==
    /\ (pc = "done" \/ listed # {}) => li > Len(LayerOrder)
    /\ pc = "done" =>
          /\ FileSet(ckpt) \subseteq listed
          /\ \A f \in listed :
                \/ f \notin FileSet(ckpt)
                \/ \E k \in 1..Len(qclog) :
                      qclog[k] = [kind |-> "cleanup", file |-> f]
    /\ pc \in {"layer", "chunk", "append", "stopped"} =>
          written \subseteq FileSet(ckpt)

\* C5 witness: the script is done, the cleanup found checkpoints of two
\* layers and one of them could not be removed.
C5_Witness ==
    /\ pc = "done"
    /\ Cardinality(listed) >= 2
    /\ Cardinality(FileSet(ckpt)) = 1

(***************************************************************************)
(* Part II : compute_nearest_chunk(df_chunk, target_gdf, name) of          *)
(*           mine_proximity_join_pa6 / pa8, one call, statement by         *)
(*           statement, with the exceptions its two try blocks handle.     *)
(***************************************************************************)
MaxLen == 3         \* a chunk has at most MaxLen rows
MaxFeat == 2        \* a layer has at most MaxFeat features

\* Coordinates (metres along a line); the distances between them are
\* 0, 250, 5000 and 5250
Coords == {0, 250, 5250}

\* geometries of a row: missing, an empty geometry, or a point
NoGeom == [kind |-> "none", x |-> 0]
EmptyGeom == [kind |-> "empty", x |-> 0]
Pt(x) == [kind |-> "point", x |-> x]

\* cells of a result column: a number, None or NaN
Val(n) == [na |-> "no", v |-> n]
NoneV == [na |-> "None", v |-> 0]
NaNV == [na |-> "NaN", v |-> 0]
IsMissing(c) == c.na # "no"

Abs(n) == IF n < 0 THEN 0 - n ELSE n

\* geom.distance(other) for a point and a feature coordinate
Dist(g, y) == Abs(g.x - y)

SeqsUpTo(S, lo, hi) == UNION {[1..n -> S] : n \in lo..hi}

\* tree.nearest(geom): the position of a feature at the least distance (the
\* first of them, when several are equally near)
TreeNearest(feats, g) ==
    CHOOSE k \in 1..Len(feats) :
        /\ \A j \in 1..Len(feats) : Dist(g, feats[k]) <= Dist(g, feats[j])
        /\ \A j \in 1..(k - 1) : Dist(g, feats[j]) > Dist(g, feats[k])

\* idx_map = {id(g): i for i, g in enumerate(geoms)}: 0-based positions
IdxMap(k) == k - 1

\* traceback.format_exc(): the header, one stack frame (two lines), the
\* exception line, and the text ends with a line break
FormatExc ==
    <<"Traceback (most recent call last):", "  File <path>, line <n>, in compute_nearest_chunk",
      "    <source line>", "<ExceptionType>: <message>", "">>

\* log_error(msg): f.write(msg + "\n"); a message is kept as the list of
\* the pieces its line breaks separate, each of which becomes a line of the
\* file.  entry counts the calls of log_error.
log_error(log, kind, pieces) ==
    LET entry == Cardinality({log[k].entry : k \in 1..Len(log)}) + 1
    IN log \o [k \in 1..Len(pieces) |->
                   [entry |-> entry, kind |-> kind, text |-> pieces[k]]]

\* f"{name} error: {type(e).__name__} - {e}" (pa8), f"{name}: ..." (pa6)
RowErrorMessage == <<"<name> error: <ExceptionType> - <message>">>

\* f"{name} chunk failure: {traceback.format_exc()}"
ChunkFailureMessage ==
    [k \in 1..Len(FormatExc) |->
        IF k = 1 THEN "<name> chunk failure: Traceback (most recent call last):"
        ELSE FormatExc[k]]

ChunkGeoms == {NoGeom, EmptyGeom} \cup {Pt(x) : x \in Coords}

ChunkStart ==
    /\ cscript \in {"pa6", "pa8"}
    /\ df_chunk \in SeqsUpTo(ChunkGeoms, 0, MaxLen)
    /\ target \in SeqsUpTo(Coords, 1, MaxFeat)
    /\ cpc = "call"
    /\ cres = <<>> /\ clog = <<>> /\ cfailed = {} /\ cchunkFailed = FALSE

ChunkInit == ChunkStart /\ JoinIdle /\ PipeIdle /\ AuxIdle

\* tree = STRtree(...); geoms = ...; idx_map = ...; idxs, dists = [], []
CncBuildTree ==
    /\ UNCHANGED <<joinVars, pipeVars, auxVars>>
    /\ cpc = "call"
    /\ cpc' = "rows"
    /\ UNCHANGED <<cscript, df_chunk, target, cres, clog, cfailed, cchunkFailed>>

\* an exception outside the row loop: the outer handler logs the traceback
\* and returns a frame of NaN with one row per row of the chunk
CncChunkFailure ==
    /\ UNCHANGED <<joinVars, pipeVars, auxVars>>
    /\ cpc = "call"
    /\ clog' = log_error(clog, "chunk", ChunkFailureMessage)
    /\ cres' = [k \in 1..Len(df_chunk) |-> [idx |-> NaNV, dist |-> NaNV]]
    /\ cchunkFailed' = TRUE
    /\ cpc' = "returned"
    /\ UNCHANGED <<cscript, df_chunk, target, cfailed>>

\* if geom is None or geom.is_empty: append (None, nan); continue
CncRowEmpty ==
    /\ UNCHANGED <<joinVars, pipeVars, auxVars>>
    /\ cpc = "rows" /\ Len(cres) < Len(df_chunk)
    /\ df_chunk[Len(cres) + 1].kind \in {"none", "empty"}
    /\ cres' = Append(cres, [idx |-> NoneV, dist |-> NaNV])
    /\ UNCHANGED <<cscript, df_chunk, target, cpc, clog, cfailed, cchunkFailed>>

\* nearest = tree.nearest(geom); append (idx_map[id(nearest)], distance)
CncRowNearest ==
    /\ UNCHANGED <<joinVars, pipeVars, auxVars>>
    /\ cpc = "rows" /\ Len(cres) < Len(df_chunk)
    /\ LET g == df_chunk[Len(cres) + 1]
           k == TreeNearest(target, g)
       IN /\ g.kind = "point"
          /\ cres' = Append(cres, [idx |-> Val(IdxMap(k)),
                                   dist |-> Val(Dist(g, target[k]))])
    /\ UNCHANGED <<cscript, df_chunk, target, cpc, clog, cfailed, cchunkFailed>>

\* an inner handler that fills the row but writes nothing to the log
CncRowErrorNotLogged ==
    /\ UNCHANGED <<joinVars, pipeVars, auxVars>>
    /\ cpc = "rows" /\ Len(cres) < Len(df_chunk)
    /\ df_chunk[Len(cres) + 1].kind # "none"
    /\ cres' = Append(cres, [idx |-> NoneV, dist |-> NaNV])
    /\ cfailed' = cfailed \cup {Len(cres) + 1}
    /\ UNCHANGED <<cscript, df_chunk, target, cpc, clog, cchunkFailed>>

\* the inner handler: an exception raised while the row is handled is
\* logged and the row gets (None, nan)
CncRowError ==
    /\ UNCHANGED <<joinVars, pipeVars, auxVars>>
    /\ cpc = "rows" /\ Len(cres) < Len(df_chunk)
    /\ df_chunk[Len(cres) + 1].kind # "none"
    /\ clog' = log_error(clog, "row", RowErrorMessage)
    /\ cres' = Append(cres, [idx |-> NoneV, dist |-> NaNV])
    /\ cfailed' = cfailed \cup {Len(cres) + 1}
    /\ UNCHANGED <<cscript, df_chunk, target, cpc, cchunkFailed>>

\* return pd.DataFrame({idx column, distance column})
CncReturn ==
    /\ UNCHANGED <<joinVars, pipeVars, auxVars>>
    /\ cpc = "rows" /\ Len(cres) = Len(df_chunk)
    /\ cpc' = "returned"
    /\ UNCHANGED <<cscript, df_chunk, target, cres, clog, cfailed, cchunkFailed>>

ChunkNext ==
    \/ CncBuildTree \/ CncChunkFailure
    \/ CncRowEmpty \/ CncRowNearest \/ CncRowError
    \/ CncReturn

SpecChunk == ChunkInit /\ [][ChunkNext]_vars

LogEntries(log) == {log[k].entry : k \in 1..Len(log)}

\* the number of failures of the call: the rows that raised, and the chunk
NumFailures == Cardinality(cfailed) + (IF cchunkFailed THEN 1 ELSE 0)

\* what the call guarantees whatever was raised: it returns (no exception
\* reaches the caller), with one row per row of the chunk, the failed rows
\* with a missing index and a NaN distance
CncContained ==
    /\ cpc # "raised"
    /\ cpc = "returned" =>
          /\ Len(cres) = Len(df_chunk)
          /\ \A k \in cfailed : IsMissing(cres[k].idx) /\ cres[k].dist = NaNV
          /\ cchunkFailed =>
                \A k \in 1..Len(cres) :
                    IsMissing(cres[k].idx) /\ cres[k].dist = NaNV

\* C6 (as claimed): no exception reaches the caller, one result row per
\* input row, failed rows missing, and ONE LINE of the QC log per failure.
C6_OneLogLinePerFailure ==
    /\ CncContained
    /\ cpc = "returned" => Len(clog) = NumFailures

\* C6 (amended): no exception reaches the caller, one result row per input
\* row, failed rows missing, and one log entry (one log_error call) per
\* failure: a single line for a failed row, the traceback for a chunk.
C6_OneLogEntryPerFailure ==
    /\ CncContained
    /\ cpc = "returned" =>
          /\ Cardinality(LogEntries(clog)) = NumFailures
          /\ \A e \in LogEntries(clog) :
                LET lines == {k \in 1..Len(clog) : clog[k].entry = e}
                IN IF \E k \in lines : clog[k].kind = "row"
                   THEN Cardinality(lines) = 1
                   ELSE Cardinality(lines) = Len(FormatExc)

\* C6 witness: a call returned after a row raised and another row was
\* computed
C6_Witness ==
    /\ cpc = "returned" /\ ~cchunkFailed
    /\ cfailed # {} /\ Len(cres) = MaxLen
    /\ \E k \in 1..Len(cres) : ~IsMissing(cres[k].idx)

(***************************************************************************)
(* Part III : the proximity-join scripts mine_proximity_join_pa, _pa2,     *)
(*            _pa3, _pa4, _pa5 and pa10_joining: load, one nearest join    *)
(*            per layer, the overall nearest feature, save.                *)
(***************************************************************************)
NumLayers == 2      \* the first NumLayers layers of a script's dictionary
MaxSites == 2       \* at most MaxSites chemistry rows are read
MaxCpu == 3         \* mp.cpu_count() is at most MaxCpu

SEARCH_RADIUS_M == 5000
maxdist == 250

\* coordinates of the sites and of the features (metres along a line): the
\* distances between a site and a feature are 0, 250, 5000 and 5250
SiteCoords == {0, 250}
FeatCoords == {0, 5250}

\* a geometry that is present but not valid
InvalidGeom == [kind |-> "invalid", x |-> 0]

PipeScripts == {"pa", "pa2", "pa3", "pa4", "pa5", "pa10"}

\* the layer dictionaries (pa: LAYER_PATHS; pa10: the nearest_join calls)
ScriptLayerNames(s) ==
    CASE s = "pa" -> <<"anthracite_surface", "bituminous_surface",
                       "underground", "aml_inventory">>
      [] s = "pa10" -> <<"AML", "Bituminous", "Anthracite", "Flow", "Passive">>
      [] OTHER -> <<"AML", "Bituminous", "Anthracite">>

\* column names, kept as the list of their parts
DistCol(name) == <<name, "_dist_m">>
IdxCol(name) == <<name, "_idx">>
GeomCol(name) == <<name, "_geom">>
NearestTypeCol == <<"nearest_type">>
NearestDistCol == <<"nearest", "_dist_m">>

\* col.endswith("_dist_m")
EndsWithDistM(col) == col[Len(col)] = "_dist_m"

\* str.replace("_dist_m", ""): every occurrence of the pattern is removed
StrReplace(col, pat) == SelectSeq(col, LAMBDA t : t # pat)

\* the geometries a script can find in its chemistry rows
SiteGeoms(s) ==
    {NoGeom} \cup {Pt(x) : x \in SiteCoords}
        \cup (IF s \in {"pa4", "pa5"} THEN {InvalidGeom} ELSE {})

PipeStart ==
    /\ pscript \in PipeScripts
    /\ rawSites \in {r \in SeqsUpTo(SiteGeoms(pscript), 1, MaxSites) :
                        \E k \in 1..Len(r) : r[k].kind = "point"}
    /\ layersG \in {[k \in 1..NumLayers |->
                        [name |-> ScriptLayerNames(pscript)[k], feats |-> F[k]]] :
                    F \in [1..NumLayers -> SeqsUpTo(FeatCoords, 0, MaxFeat)]}
    /\ ncpu \in (IF pscript = "pa5" THEN 1..MaxCpu ELSE {1})
    /\ ppc = "load" /\ pl = 1 /\ tab = <<>> /\ colOrder = <<>>
    /\ results = <<>> /\ ppath = <<>>

PipeInit == PipeStart /\ JoinIdle /\ ChunkIdle /\ AuxIdle

(***************************************************************************)
(* Tables: a row is [site, geom, cells]; site is the position of the row   *)
(* in the file that was read (0 for a row that belongs to no site).        *)
(***************************************************************************)
Row(i, g) == [site |-> i, geom |-> g, cells |-> <<>>]

\* row[col] = v, for a new or an existing column
SetCell(row, col, v) ==
    [row EXCEPT !.cells = [c \in (DOMAIN row.cells) \cup {col} |->
                               IF c = col THEN v ELSE row.cells[c]]]

AllRows(raw) == [k \in 1..Len(raw) |-> Row(k, raw[k])]

\* a load that keeps every row
LoadKeepsAll(s, row) == TRUE

\* the rows a script keeps when it builds its GeoDataFrame
\*   pa  : df.dropna(subset=[lat_col, lon_col])
\*   pa4 : drops ~is_valid | is_empty | isna
\*   pa5 : dropna(subset=["geometry"]) and chem[chem.is_valid]
LoadKeeps(s, row) ==
    CASE s = "pa" -> row.geom.kind # "none"
      [] s \in {"pa4", "pa5"} -> row.geom.kind = "point"
      [] OTHER -> TRUE

LoadSites(s, raw) == SelectSeq(AllRows(raw), LAMBDA row : LoadKeeps(s, row))

AllEmpty(layers) == \A k \in 1..Len(layers) : Len(layers[k].feats) = 0

\* pa: mine_layers holds only the layers with len(gdf) > 0
NonEmptyLayers(layers) == SelectSeq(layers, LAMBDA L : Len(L.feats) > 0)

\* load the chemistry rows and the layers; pa, pa3 and pa5 exit when no
\* layer has a feature
PipeLoad ==
    /\ UNCHANGED <<joinVars, chunkVars, auxVars>>
    /\ ppc = "load"
    /\ tab' = LoadSites(pscript, rawSites)
    /\ layersG' = IF pscript = "pa" THEN NonEmptyLayers(layersG) ELSE layersG
    /\ ppc' = IF pscript \in {"pa", "pa3", "pa5"} /\ AllEmpty(layersG)
              THEN "exit" ELSE "join"
    /\ UNCHANGED <<pscript, rawSites, ncpu, pl, colOrder, results, ppath>>

(***************************************************************************)
(* pa2 / pa3: nearest_feature(row, target_gdf)                             *)
(***************************************************************************)
\* target_gdf.geometry.distance(row.geometry), by position
DistanceSeries(feats, g) == [k \in 1..Len(feats) |-> Dist(g, feats[k])]

\* the index label of position k of a layer as read by gpd.read_file
RangeLabel(k) == k - 1

\* idxmax in the place of idxmin: the label of the first greatest value
IdxMax(series) ==
    RangeLabel(CHOOSE k \in DOMAIN series :
                   /\ \A j \in DOMAIN series : series[k] >= series[j]
                   /\ \A j \in 1..(k - 1) : series[j] < series[k])

\* Series.idxmin(): the label of the first least value
IdxMin(series) ==
    RangeLabel(CHOOSE k \in DOMAIN series :
                   /\ \A j \in DOMAIN series : series[k] <= series[j]
                   /\ \A j \in 1..(k - 1) : series[j] > series[k])

\* .iloc[p]: the element at 0-based position p
Iloc(feats, p) == feats[p + 1]

nearest_feature(g, feats) ==
    IF g.kind = "none" \/ Len(feats) = 0
    THEN [geom |-> NoneV, dist |-> NoneV]
    ELSE LET nearest_geom == Iloc(feats, IdxMin(DistanceSeries(feats, g)))
         IN [geom |-> Val(nearest_geom), dist |-> Val(Dist(g, nearest_geom))]

\* chem[[f"{name}_geom", f"{name}_dist_m"]] = chem.progress_apply(...)
NearestFeatureJoin ==
    /\ UNCHANGED <<joinVars, chunkVars, auxVars>>
    /\ ppc = "join" /\ pscript \in {"pa2", "pa3"} /\ pl <= Len(layersG)
    /\ LET L == layersG[pl]
       IN /\ tab' = [k \in 1..Len(tab) |->
                        LET r == nearest_feature(tab[k].geom, L.feats)
                        IN SetCell(SetCell(tab[k], GeomCol(L.name), r.geom),
                                   DistCol(L.name), r.dist)]
          /\ colOrder' = colOrder \o <<GeomCol(L.name), DistCol(L.name)>>
          /\ ppath' = Append(ppath, "apply")
    /\ pl' = pl + 1
    /\ UNCHANGED <<pscript, rawSites, layersG, ncpu, ppc, results>>

(***************************************************************************)
(* pa4: nearest_join(source_gdf, target_gdf, target_name)                  *)
(***************************************************************************)
\* list(sindex.nearest(..., 1))[0]: the 0-based position of a nearest feature
SindexNearest(feats, g) == TreeNearest(feats, g) - 1

nearest_join_pa4(g, feats) ==
    IF Len(feats) = 0 \/ g.kind \in {"none", "empty"}
    THEN [idx |-> NoneV, dist |-> NoneV]
    ELSE LET i == SindexNearest(feats, g)
         IN [idx |-> Val(i), dist |-> Val(Dist(g, Iloc(feats, i)))]

Pa4Join ==
    /\ UNCHANGED <<joinVars, chunkVars, auxVars>>
    /\ ppc = "join" /\ pscript = "pa4" /\ pl <= Len(layersG)
    /\ LET L == layersG[pl]
       IN /\ tab' = [k \in 1..Len(tab) |->
                        LET r == nearest_join_pa4(tab[k].geom, L.feats)
                        IN SetCell(SetCell(tab[k], IdxCol(L.name), r.idx),
                                   DistCol(L.name), r.dist)]
          /\ colOrder' = colOrder \o <<IdxCol(L.name), DistCol(L.name)>>
          /\ ppath' = Append(ppath, "sindex")
    /\ pl' = pl + 1
    /\ UNCHANGED <<pscript, rawSites, layersG, ncpu, ppc, results>>

(***************************************************************************)
(* pa5: nearest_distance, process_chunk, nearest_join_parallel             *)
(***************************************************************************)
\* try: idx = list(sindex.nearest(src_geom, 1))[0]; ... except: None, None
nearest_distance(g, feats) ==
    IF g.kind = "none" \/ Len(feats) = 0
    THEN [idx |-> NoneV, dist |-> NoneV]
    ELSE LET i == SindexNearest(feats, g)
         IN [idx |-> Val(i), dist |-> Val(Dist(g, Iloc(feats, i)))]

\* one (idx, dist) per row of the chunk; rows without a valid geometry get
\* (None, None) without a query
process_chunk(rows, feats) ==
    [k \in 1..Len(rows) |->
        IF rows[k].geom.kind # "point"
        THEN [idx |-> NoneV, dist |-> NoneV]
        ELSE nearest_distance(rows[k].geom, feats)]

Max2(a, b) == IF a >= b THEN a ELSE b

\* n_cores = max(1, mp.cpu_count() - 1)
NCores(cpu) == Max2(1, cpu - 1)

\* chunksize = max(1, len(chem)//n_cores)
ChunkSizePa5(n, cores) == Max2(1, n \div cores)

\* [chem.iloc[i:i+chunksize] for i in range(0, len(chem), chunksize)]
ChunksPa5(rows, cores) ==
    LET size == ChunkSizePa5(Len(rows), cores)
        cnt == (Len(rows) + size - 1) \div size
    IN [c \in 1..cnt |->
           SubSeq(rows, (c - 1) * size + 1, Min2(c * size, Len(rows)))]

RECURSIVE FlattenFrom(_, _)
FlattenFrom(lists, k) ==
    IF k > Len(lists) THEN <<>> ELSE lists[k] \o FlattenFrom(lists, k + 1)

\* flat = [item for sublist in results for item in sublist]
ParallelPairs(rows, feats, cores) ==
    LET cs == ChunksPa5(rows, cores)
    IN FlattenFrom([c \in 1..Len(cs) |-> process_chunk(cs[c], feats)], 1)

\* chem.progress_apply(lambda r: nearest_distance(r.geometry, ...), axis=1)
SequentialPairs(rows, feats) ==
    [k \in 1..Len(rows) |-> nearest_distance(rows[k].geom, feats)]

\* chem[[f"{name}_idx", f"{name}_dist_m"]] = pairs
AssignPairs(rows, name, pairs) ==
    [k \in 1..Len(rows) |->
        SetCell(SetCell(rows[k], IdxCol(name), pairs[k].idx),
                DistCol(name), pairs[k].dist)]

\* if layer_gdf.empty: both columns are None
Pa5JoinEmpty ==
    /\ UNCHANGED <<joinVars, chunkVars, auxVars>>
    /\ ppc = "join" /\ pscript = "pa5" /\ pl <= Len(layersG)
    /\ Len(layersG[pl].feats) = 0
    /\ tab' = AssignPairs(tab, layersG[pl].name,
                          [k \in 1..Len(tab) |-> [idx |-> NoneV, dist |-> NoneV]])
    /\ colOrder' = colOrder \o <<IdxCol(layersG[pl].name), DistCol(layersG[pl].name)>>
    /\ ppath' = Append(ppath, "empty")
    /\ pl' = pl + 1
    /\ UNCHANGED <<pscript, rawSites, layersG, ncpu, ppc, results>>

\* the try block runs to its end
Pa5JoinParallel ==
    /\ UNCHANGED <<joinVars, chunkVars, auxVars>>
    /\ ppc = "join" /\ pscript = "pa5" /\ pl <= Len(layersG)
    /\ Len(layersG[pl].feats) > 0
    /\ LET flat == ParallelPairs(tab, layersG[pl].feats, NCores(ncpu))
       IN /\ Len(flat) = Len(tab)
          /\ tab' = AssignPairs(tab, layersG[pl].name, flat)
    /\ colOrder' = colOrder \o <<IdxCol(layersG[pl].name), DistCol(layersG[pl].name)>>
    /\ ppath' = Append(ppath, "parallel")
    /\ pl' = pl + 1
    /\ UNCHANGED <<pscript, rawSites, layersG, ncpu, ppc, results>>

\* the try block raises: the except block computes the columns row by row
Pa5JoinFallback ==
    /\ UNCHANGED <<joinVars, chunkVars, auxVars>>
    /\ ppc = "join" /\ pscript = "pa5" /\ pl <= Len(layersG)
    /\ Len(layersG[pl].feats) > 0
    /\ tab' = AssignPairs(tab, layersG[pl].name,
                          SequentialPairs(tab, layersG[pl].feats))
    /\ colOrder' = colOrder \o <<IdxCol(layersG[pl].name), DistCol(layersG[pl].name)>>
    /\ ppath' = Append(ppath, "fallback")
    /\ pl' = pl + 1
    /\ UNCHANGED <<pscript, rawSites, layersG, ncpu, ppc, results>>

(***************************************************************************)
(* gpd.sjoin_nearest(left, right, how="left", max_distance, distance_col)  *)
(***************************************************************************)
\* the features at the least distance from g, when that distance is within
\* max_distance; a row without geometry matches nothing
NearestWithin(g, feats, radius) ==
    IF g.kind = "none" THEN {}
    ELSE {k \in 1..Len(feats) :
             /\ Dist(g, feats[k]) <= radius
             /\ \A j \in 1..Len(feats) : Dist(g, feats[k]) <= Dist(g, feats[j])}

\* the rows a left row contributes: one per equally near feature, or one
\* row with a missing distance when nothing is within max_distance
JoinedRows(row, feats, radius, col) ==
    LET near == NearestWithin(row.geom, feats, radius)
        hits == SelectSeq([k \in 1..Len(feats) |-> k], LAMBDA k : k \in near)
    IN IF near = {} THEN <<SetCell(row, col, NaNV)>>
       ELSE [h \in 1..Len(hits) |->
                SetCell(row, col, Val(Dist(row.geom, feats[hits[h]])))]

sjoin_nearest(rows, feats, radius, col) ==
    FlattenFrom([k \in 1..Len(rows) |-> JoinedRows(rows[k], feats, radius, col)], 1)

(***************************************************************************)
(* pa: main()                                                              *)
(***************************************************************************)
\* joined = gpd.sjoin_nearest(...); results.append(joined[[f"{name}_dist_m"]])
PaJoin ==
    /\ UNCHANGED <<joinVars, chunkVars, auxVars>>
    /\ ppc = "join" /\ pscript = "pa" /\ pl <= Len(layersG)
    /\ LET col == DistCol(layersG[pl].name)
           joined == sjoin_nearest(tab, layersG[pl].feats, SEARCH_RADIUS_M, col)
       IN results' = Append(results,
              [col |-> col,
               rows |-> [k \in 1..Len(joined) |->
                            [ix |-> joined[k].site, v |-> joined[k].cells[col]]]])
    /\ ppath' = Append(ppath, "sjoin")
    /\ pl' = pl + 1
    /\ UNCHANGED <<pscript, rawSites, layersG, ncpu, ppc, tab, colOrder>>

\* except Exception: the failure is logged and the layer gets no column
PaJoinFails ==
    /\ UNCHANGED <<joinVars, chunkVars, auxVars>>
    /\ ppc = "join" /\ pscript = "pa" /\ pl <= Len(layersG)
    /\ ppath' = Append(ppath, "failed")
    /\ pl' = pl + 1
    /\ UNCHANGED <<pscript, rawSites, layersG, ncpu, ppc, tab, colOrder, results>>

\* a row of a frame that has no row at this index: every column is NaN
NaNRow(t) ==
    [site |-> 0, geom |-> NoGeom,
     cells |-> [c \in (IF Len(t) > 0 THEN DOMAIN t[1].cells ELSE {}) |-> NaNV]]

\* res = res.reset_index(drop=True);
\* sites = pd.concat([sites, res], axis=1, ignore_index=False):
\* the rows are paired by position, the shorter frame is padded with NaN
ConcatAxis1(t, res) ==
    [k \in 1..Max2(Len(t), Len(res.rows)) |->
        SetCell(IF k <= Len(t) THEN t[k] ELSE NaNRow(t), res.col,
                IF k <= Len(res.rows) THEN res.rows[k].v ELSE NaNV)]

RECURSIVE CombineFrom(_, _, _)
\* for res in results: ...
CombineFrom(t, rs, k) ==
    IF k > Len(rs) THEN t ELSE CombineFrom(ConcatAxis1(t, rs[k]), rs, k + 1)

PaCombine ==
    /\ UNCHANGED <<joinVars, chunkVars, auxVars>>
    /\ ppc = "join" /\ pscript = "pa" /\ pl > Len(layersG)
    /\ tab' = CombineFrom(tab, results, 1)
    /\ colOrder' = colOrder \o [k \in 1..Len(results) |-> results[k].col]
    /\ ppc' = "overall"
    /\ UNCHANGED <<pscript, rawSites, layersG, ncpu, pl, results, ppath>>

(***************************************************************************)
(* pa10_joining: nearest_join(left, right, label, dist_col, maxdist=250)   *)
(***************************************************************************)
\* if right.empty: return left
Pa10SkipEmpty ==
    /\ UNCHANGED <<joinVars, chunkVars, auxVars>>
    /\ ppc = "join" /\ pscript = "pa10" /\ pl <= Len(layersG)
    /\ Len(layersG[pl].feats) = 0
    /\ ppath' = Append(ppath, "empty")
    /\ pl' = pl + 1
    /\ UNCHANGED <<pscript, rawSites, layersG, ncpu, ppc, tab, colOrder, results>>

\* return joined
Pa10Join ==
    /\ UNCHANGED <<joinVars, chunkVars, auxVars>>
    /\ ppc = "join" /\ pscript = "pa10" /\ pl <= Len(layersG)
    /\ Len(layersG[pl].feats) > 0
    /\ tab' = sjoin_nearest(tab, layersG[pl].feats, maxdist, DistCol(layersG[pl].name))
    /\ colOrder' = Append(colOrder, DistCol(layersG[pl].name))
    /\ ppath' = Append(ppath, "sjoin")
    /\ pl' = pl + 1
    /\ UNCHANGED <<pscript, rawSites, layersG, ncpu, ppc, results>>

\* except Exception: return left
Pa10JoinFails ==
    /\ UNCHANGED <<joinVars, chunkVars, auxVars>>
    /\ ppc = "join" /\ pscript = "pa10" /\ pl <= Len(layersG)
    /\ Len(layersG[pl].feats) > 0
    /\ ppath' = Append(ppath, "failed")
    /\ pl' = pl + 1
    /\ UNCHANGED <<pscript, rawSites, layersG, ncpu, ppc, tab, colOrder, results>>

\* chem.to_parquet(OUT, index=False)
Pa10Save ==
    /\ UNCHANGED <<joinVars, chunkVars, auxVars>>
    /\ ppc = "join" /\ pscript = "pa10" /\ pl > Len(layersG)
    /\ ppc' = "done"
    /\ UNCHANGED <<pscript, rawSites, layersG, ncpu, pl, tab, colOrder, results, ppath>>

(***************************************************************************)
(* The overall nearest feature (pa, pa2, pa3, pa4, pa5) and the save       *)
(***************************************************************************)
\* pa : [col for col in sites.columns if col.endswith("_dist_m")]
\* else: [f"{n}_dist_m" for n in layers]
DistCols ==
    IF pscript = "pa" THEN SelectSeq(colOrder, EndsWithDistM)
    ELSE [k \in 1..Len(layersG) |-> DistCol(layersG[k].name)]

\* the positions of the columns whose value is not missing in the row
Present(row, cols) == {k \in 1..Len(cols) : ~IsMissing(row.cells[cols[k]])}

\* the first column that holds a value, whatever the value
IdxFirstPresentAxis1(row, cols) ==
    LET present == Present(row, cols)
    IN IF present = {} THEN NaNV
       ELSE [na |-> "no",
             v |-> cols[CHOOSE k \in present : \A j \in present : k <= j]]

\* DataFrame.idxmin(axis=1): the first column that holds the least value of
\* the row, missing values skipped; NaN when every value is missing
IdxMinAxis1(row, cols) ==
    LET present == Present(row, cols)
    IN IF present = {} THEN NaNV
       ELSE [na |-> "no",
             v |-> cols[CHOOSE k \in present :
                          /\ \A j \in present :
                                row.cells[cols[k]].v <= row.cells[cols[j]].v
                          /\ \A j \in present :
                                j < k => row.cells[cols[j]].v > row.cells[cols[k]].v]]

\* DataFrame.min(axis=1)
MinAxis1(row, cols) ==
    LET present == Present(row, cols)
    IN IF present = {} THEN NaNV
       ELSE row.cells[cols[CHOOSE k \in present :
                \A j \in present : row.cells[cols[k]].v <= row.cells[cols[j]].v]]

\* .str.replace("_dist_m", "") on the column labels; NaN stays NaN
TypeOf(label) ==
    IF IsMissing(label) THEN NaNV
    ELSE [na |-> "no", v |-> StrReplace(label.v, "_dist_m")]

OverallTypeCol == IF pscript = "pa" THEN <<"nearest_mine_type">> ELSE NearestTypeCol
OverallDistCol == IF pscript = "pa" THEN <<"nearest_mine", "_dist_m">> ELSE NearestDistCol

AtOverall ==
    \/ ppc = "overall" /\ pscript = "pa"
    \/ ppc = "join" /\ pscript \in {"pa2", "pa3", "pa4", "pa5"} /\ pl > Len(layersG)

\* nearest type and nearest distance of every row, then the table is saved
Overall ==
    /\ UNCHANGED <<joinVars, chunkVars, auxVars>>
    /\ AtOverall
    /\ IF Len(DistCols) = 0
       THEN UNCHANGED <<tab, colOrder>>
       ELSE /\ tab' = [k \in 1..Len(tab) |->
                         SetCell(SetCell(tab[k], OverallTypeCol,
                                         TypeOf(IdxMinAxis1(tab[k], DistCols))),
                                 OverallDistCol, MinAxis1(tab[k], DistCols))]
            /\ colOrder' = colOrder \o <<OverallTypeCol, OverallDistCol>>
    /\ ppc' = "done"
    /\ UNCHANGED <<pscript, rawSites, layersG, ncpu, pl, results, ppath>>

\* a distance column that holds None has dtype object, for which the
\* reduction of idxmin can raise TypeError: the script stops without output
OverallTypeError ==
    /\ UNCHANGED <<joinVars, chunkVars, auxVars>>
    /\ AtOverall /\ pscript # "pa"
    /\ \E k \in 1..Len(tab) : \E c \in 1..Len(DistCols) :
          tab[k].cells[DistCols[c]] = NoneV
    /\ ppc' = "crashed"
    /\ UNCHANGED <<pscript, rawSites, layersG, ncpu, pl, tab, colOrder, results, ppath>>

PipeNext ==
    \/ PipeLoad
    \/ NearestFeatureJoin
    \/ Pa4Join
    \/ Pa5JoinEmpty \/ Pa5JoinParallel \/ Pa5JoinFallback
    \/ PaJoin \/ PaJoinFails \/ PaCombine
    \/ Pa10SkipEmpty \/ Pa10Join \/ Pa10JoinFails \/ Pa10Save
    \/ Overall \/ OverallTypeError

SpecPipe == PipeInit /\ [][PipeNext]_vars

(***************************************************************************)
(* Properties of the proximity-join scripts                                *)
(***************************************************************************)
PairsOf(rows, name) ==
    [k \in 1..Len(rows) |->
        [idx |-> rows[k].cells[IdxCol(name)], dist |-> rows[k].cells[DistCol(name)]]]

\* C7: in nearest_join_parallel of pa5, on the parallel path and on the
\* fallback path every chemistry record gets exactly one (index, distance)
\* pair, in record order, and the pair is the one both paths compute: the
\* flattened parallel chunks equal the row-by-row fallback.
C7_ParallelEqualsSequential ==
    (pscript = "pa5" /\ ppc \in {"join", "done", "crashed"}) =>
        \A k \in 1..(pl - 1) :
            Len(layersG[k].feats) > 0 =>
                /\ ppath[k] \in {"parallel", "fallback"}
                /\ Len(tab) = Len(LoadSites("pa5", rawSites))
                /\ \A j \in 1..(Len(tab) - 1) : tab[j].site < tab[j + 1].site
                /\ PairsOf(tab, layersG[k].name)
                       = SequentialPairs(tab, layersG[k].feats)
                /\ PairsOf(tab, layersG[k].name)
                       = ParallelPairs(tab, layersG[k].feats, NCores(ncpu))

\* C7 witness: two records in two chunks on two cores, the first layer
\* computed by the fallback and the second by the parallel path, both with
\* a feature found for the second record
C7_Witness ==
    /\ pscript = "pa5" /\ ppc = "done" /\ NCores(ncpu) = 2
    /\ Len(tab) = 2 /\ Len(ChunksPa5(tab, NCores(ncpu))) = 2
    /\ ppath[1] = "fallback" /\ ppath[2] = "parallel"
    /\ ~IsMissing(tab[2].cells[DistCol(layersG[1].name)])
    /\ ~IsMissing(tab[2].cells[DistCol(layersG[2].name)])

Radius == IF pscript = "pa" THEN SEARCH_RADIUS_M ELSE maxdist

\* the layers that got a distance column
JoinedLayers == {k \in 1..Len(layersG) : \E c \in 1..Len(colOrder) :
                    colOrder[c] = DistCol(layersG[k].name)}

\* C9 (as claimed): in pa and in nearest_join of pa10, a recorded distance
\* is never greater than the search radius, and a site without a feature of
\* the layer within the radius stays in the result with a missing distance
\* for that layer.
C9_WithinRadiusOrMissing ==
    (pscript \in {"pa", "pa10"} /\ ppc = "done") =>
        \A k \in JoinedLayers :
            LET col == DistCol(layersG[k].name)
                loaded == LoadSites(pscript, rawSites)
            IN /\ \A j \in 1..Len(tab) :
                     ~IsMissing(tab[j].cells[col]) => tab[j].cells[col].v <= Radius
               /\ \A i \in 1..Len(loaded) :
                     NearestWithin(loaded[i].geom, layersG[k].feats, Radius) = {}
                        => /\ \E j \in 1..Len(tab) : tab[j].site = loaded[i].site
                           /\ \A j \in 1..Len(tab) :
                                 tab[j].site = loaded[i].site
                                    => IsMissing(tab[j].cells[col])

\* the values of the per-layer distance columns of a row
LayerDistances(row) ==
    {row.cells[DistCol(layersG[k].name)].v : k \in
        {k \in 1..Len(layersG) :
            /\ DistCol(layersG[k].name) \in DOMAIN row.cells
            /\ ~IsMissing(row.cells[DistCol(layersG[k].name)])}}

\* C10: in pa, pa2, pa3, pa4 and pa5, for every saved record with at least
\* one per-layer distance the overall nearest distance is the least of the
\* record's per-layer distances and the overall nearest type is the name of
\* a layer whose distance is that least one.
C10_OverallNearestIsMinimum ==
    (pscript \in {"pa", "pa2", "pa3", "pa4", "pa5"} /\ ppc = "done") =>
        \A j \in 1..Len(tab) :
            LET ds == LayerDistances(tab[j])
            IN ds # {} =>
                 LET least == CHOOSE d \in ds : \A e \in ds : d <= e
                 IN /\ tab[j].cells[OverallDistCol] = Val(least)
                    /\ ~IsMissing(tab[j].cells[OverallTypeCol])
                    /\ \E k \in 1..Len(layersG) :
                          /\ tab[j].cells[OverallTypeCol].v = <<layersG[k].name>>
                          /\ tab[j].cells[DistCol(layersG[k].name)] = Val(least)

\* C10 witness: a saved record whose second layer is nearer than its first
C10_Witness ==
    /\ pscript \in {"pa", "pa2", "pa3", "pa4", "pa5"} /\ ppc = "done"
    /\ Len(layersG) >= 2
    /\ \E j \in 1..Len(tab) :
          /\ Cardinality(LayerDistances(tab[j])) = 2
          /\ tab[j].cells[OverallTypeCol].na = "no"
          /\ tab[j].cells[OverallTypeCol].v = <<layersG[2].name>>

(***************************************************************************)
(* Part IV : fetch_arcgis_full(service_url, layer_id, label, out_name) of  *)
(*           pa9_processing: the cache test, the objectId query, the batch *)
(*           loop with its HTTP and parse failures, the save to the cache. *)
(*           A frame is the range [lo, hi) of positions of `ids` whose     *)
(*           features it holds; a dataset is a sequence of frames.         *)
(***************************************************************************)
step == 500

MaxCalls == 3

\* len(ids) of the id query: nothing, one batch, a full batch, just over one
\* batch, just over the 1,000 records a single query returns
IdCounts == {0, 1, 500, 501, 1001}

\* ids[i:i+step]
Batch(i, n) == [lo |-> i, hi |-> Min2(i + step, n)]

\* a call starts: out_path = CACHE / out_name
FetchStart ==
    /\ fcache = [l \in FetchLayers |-> NoFile] /\ fpc = "idle"
    /\ flabel \in FetchLayers /\ fids = 0 /\ fi = 0 /\ frames = <<>>
    /\ fret = <<>> /\ fprinted = <<>> /\ fcalls = 0

FetchInit ==
    FetchStart /\ MainIdle /\ CsvIdle /\ UnifyIdle /\ PickIdle /\ RankIdle /\ SplitIdle

\* if out_path.exists(): return gpd.read_file(out_path)
FetchCached ==
    /\ UNCHANGED fetchOthers
    /\ fpc = "idle" /\ fcalls < MaxCalls
    /\ \E l \in FetchLayers :
          /\ fcache[l].exists
          /\ flabel' = l
          /\ fret' = fcache[l].data
    /\ fpc' = "cached" /\ fcalls' = fcalls + 1
    /\ fids' = 0 /\ fi' = 0 /\ frames' = <<>> /\ fprinted' = <<>>
    /\ UNCHANGED fcache

\* the id query succeeds and returns objectIds
FetchIds ==
    /\ UNCHANGED fetchOthers
    /\ fpc = "idle" /\ fcalls < MaxCalls
    /\ \E l \in FetchLayers, n \in IdCounts \ {0} :
          /\ ~fcache[l].exists
          /\ flabel' = l /\ fids' = n
    /\ fpc' = "batches" /\ fcalls' = fcalls + 1
    /\ fi' = 0 /\ frames' = <<>> /\ fret' = <<>> /\ fprinted' = <<>>
    /\ UNCHANGED fcache

\* ids = r.json().get("objectIds", []); if not ids: return empty
FetchNoIds ==
    /\ UNCHANGED fetchOthers
    /\ fpc = "idle" /\ fcalls < MaxCalls
    /\ \E l \in FetchLayers : ~fcache[l].exists /\ flabel' = l
    /\ fpc' = "empty" /\ fcalls' = fcalls + 1
    /\ fids' = 0 /\ fi' = 0 /\ frames' = <<>> /\ fret' = <<>>
    /\ fprinted' = <<"No ObjectIDs returned">>
    /\ UNCHANGED fcache

\* requests.get raises, or r.raise_for_status() raises: the call raises
FetchIdQueryRaises ==
    /\ UNCHANGED fetchOthers
    /\ fpc = "idle" /\ fcalls < MaxCalls
    /\ \E l \in FetchLayers : ~fcache[l].exists /\ flabel' = l
    /\ fpc' = "raised" /\ fcalls' = fcalls + 1
    /\ fids' = 0 /\ fi' = 0 /\ frames' = <<>> /\ fret' = <<>> /\ fprinted' = <<>>
    /\ UNCHANGED fcache

\* one pass of the batch loop, status 200 and a non-empty parsed frame
FetchBatchAppend ==
    /\ UNCHANGED fetchOthers
    /\ fpc = "batches" /\ fi < fids
    /\ frames' = Append(frames, Batch(fi, fids))
    /\ fi' = fi + step
    /\ UNCHANGED <<fcache, fpc, flabel, fids, fret, fprinted, fcalls>>

\* status 200, the parsed frame is empty: nothing appended, nothing printed
FetchBatchEmpty ==
    /\ UNCHANGED fetchOthers
    /\ fpc = "batches" /\ fi < fids
    /\ fi' = fi + step
    /\ fprinted' = Append(fprinted, "")
    /\ UNCHANGED <<fcache, fpc, flabel, fids, frames, fret, fcalls>>

\* if r.status_code != 200: print(...); continue
FetchBatchHttpError ==
    /\ UNCHANGED fetchOthers
    /\ fpc = "batches" /\ fi < fids
    /\ fi' = fi + step
    /\ fprinted' = Append(fprinted, "HTTP")
    /\ UNCHANGED <<fcache, fpc, flabel, fids, frames, fret, fcalls>>

\* except Exception as e: print(parse error)
FetchBatchParseError ==
    /\ UNCHANGED fetchOthers
    /\ fpc = "batches" /\ fi < fids
    /\ fi' = fi + step
    /\ fprinted' = Append(fprinted, "parse error")
    /\ UNCHANGED <<fcache, fpc, flabel, fids, frames, fret, fcalls>>

\* requests.get(..., timeout=300) raises: not caught, the call raises
FetchBatchRaises ==
    /\ UNCHANGED fetchOthers
    /\ fpc = "batches" /\ fi < fids
    /\ fpc' = "raised"
    /\ UNCHANGED <<fcache, flabel, fids, fi, frames, fret, fprinted, fcalls>>

\* if not frames: return an empty GeoDataFrame (nothing is cached)
FetchNoData ==
    /\ UNCHANGED fetchOthers
    /\ fpc = "batches" /\ fi >= fids /\ frames = <<>>
    /\ fpc' = "empty" /\ fret' = <<>>
    /\ UNCHANGED <<fcache, flabel, fids, fi, frames, fprinted, fcalls>>

\* gdf = pd.concat(frames, ignore_index=True); gdf.to_file(out_path); return
FetchSave ==
    /\ UNCHANGED fetchOthers
    /\ fpc = "batches" /\ fi >= fids /\ frames # <<>>
    /\ fcache' = [fcache EXCEPT ![flabel] = [exists |-> TRUE, data |-> frames]]
    /\ fret' = frames
    /\ fpc' = "saved"
    /\ UNCHANGED <<flabel, fids, fi, frames, fprinted, fcalls>>

\* the script goes on to its next call (or is run again after a failure)
FetchNextCall ==
    /\ UNCHANGED fetchOthers
    /\ fpc \in {"cached", "empty", "saved", "raised"}
    /\ fpc' = "idle"
    /\ UNCHANGED <<fcache, flabel, fids, fi, frames, fret, fprinted, fcalls>>

FetchNext ==
    \/ FetchCached \/ FetchIds \/ FetchNoIds \/ FetchIdQueryRaises
    \/ FetchBatchAppend \/ FetchBatchEmpty \/ FetchBatchHttpError
    \/ FetchBatchParseError \/ FetchBatchRaises
    \/ FetchNoData \/ FetchSave \/ FetchNextCall

SpecFetch == FetchInit /\ [][FetchNext]_vars

\* the dataset holds the feature of the objectId at position k of ids
HasFeature(dataset, k) ==
    \E j \in 1..Len(dataset) : dataset[j].lo <= k /\ k < dataset[j].hi

\* C11: whenever fetch_arcgis_full has fetched a layer from the service and
\* has saved and returned a dataset, the returned dataset and the cached
\* file hold the feature of every objectId the id query returned.
C11_FetchReturnsEveryObjectId ==
    fpc = "saved" =>
        /\ fcache[flabel].exists
        /\ \A k \in 0..(fids - 1) :
              HasFeature(fret, k) /\ HasFeature(fcache[flabel].data, k)

(***************************************************************************)
(* Part V  : safe_read_csv_to_parquet(path, out_parquet, chunksize) of     *)
(*           analyze_chemistry_mine_proximity: the PyArrow attempt, the    *)
(*           pandas fallback, the Parquet write with its retry, the log.   *)
(*           A path is the sequence of its pieces, ".csv" being one piece. *)
(***************************************************************************)
MaxRows == 3

CsvPaths == {<<"wqx", ".csv">>, <<"wqx", ".csv", "_v2", ".csv">>, <<"wqx", ".txt">>}

OutArgs == {NoneArg, <<"out", ".parquet">>}

\* path.replace(".csv", ".parquet")
DefaultParquet(path) ==
    [k \in 1..Len(path) |-> IF path[k] = ".csv" THEN ".parquet" ELSE path[k]]

\* out_parquet or path.replace(".csv", ".parquet")
OrDefault(o, path) == IF o = NoneArg THEN DefaultParquet(path) ELSE o

IsOk(line) == line = "ok"

RECURSIVE CountBad(_)
CountBad(rows) ==
    IF rows = <<>> THEN 0
    ELSE (IF IsOk(Head(rows)) THEN 0 ELSE 1) + CountBad(Tail(rows))

LogEntry(kind, n) == [kind |-> kind, n |-> n]

CsvStart ==
    /\ csv_path \in CsvPaths
    /\ csv_rows \in SeqsUpTo({"ok", "bad"}, 0, MaxRows)
    /\ pyarrow_installed \in BOOLEAN
    /\ out_arg \in OutArgs /\ out_parquet = out_arg
    /\ vpc = "start" /\ csv_df = <<>> /\ bad_lines = <<>> /\ csv_log = <<>>
    /\ parquet_files = {} /\ csv_reader = "none" /\ csv_why = "none"
    /\ csv_skipped = 0

CsvInit ==
    CsvStart /\ MainIdle /\ FetchIdle /\ UnifyIdle /\ PickIdle /\ RankIdle /\ SplitIdle

\* import pyarrow.csv raises ModuleNotFoundError
CsvImportFails ==
    /\ UNCHANGED csvOthers
    /\ vpc = "start" /\ ~pyarrow_installed
    /\ vpc' = "fallback" /\ csv_why' = "not installed"
    /\ UNCHANGED <<csv_path, csv_rows, pyarrow_installed, out_arg, out_parquet,
                   csv_df, bad_lines, csv_log, parquet_files, csv_reader,
                   csv_skipped>>

\* table = pv.read_csv(path): every line has the header's number of fields
CsvPaRead ==
    /\ UNCHANGED csvOthers
    /\ vpc = "start" /\ pyarrow_installed
    /\ CountBad(csv_rows) = 0
    /\ vpc' = "pa_table" /\ csv_df' = csv_rows
    /\ UNCHANGED <<csv_path, csv_rows, pyarrow_installed, out_arg, out_parquet,
                   bad_lines, csv_log, parquet_files, csv_reader, csv_why,
                   csv_skipped>>

\* df = table.to_pandas(...); out_parquet = out_parquet or path.replace(...)
CsvPaToPandas ==
    /\ UNCHANGED csvOthers
    /\ vpc = "pa_table"
    /\ out_parquet' = OrDefault(out_parquet, csv_path)
    /\ vpc' = "pa_df"
    /\ UNCHANGED <<csv_path, csv_rows, pyarrow_installed, out_arg, csv_df,
                   bad_lines, csv_log, parquet_files, csv_reader, csv_why,
                   csv_skipped>>

\* a PyArrow step raises (read_csv on a malformed line or for any other
\* reason, to_pandas, write_table): except Exception, fall back to pandas
CsvPaRaises ==
    /\ UNCHANGED csvOthers
    /\ \/ vpc = "start" /\ pyarrow_installed
       \/ vpc \in {"pa_table", "pa_df"}
    /\ vpc' = "fallback" /\ csv_why' = "raised"
    /\ csv_df' = <<>>
    /\ UNCHANGED <<csv_path, csv_rows, pyarrow_installed, out_arg, out_parquet,
                   bad_lines, csv_log, parquet_files, csv_reader, csv_skipped>>

CsvPaWriteSkipped ==
    /\ UNCHANGED csvOthers
    /\ vpc = "pa_df"
    /\ vpc' = "returned" /\ csv_reader' = "pyarrow"
    /\ UNCHANGED <<csv_path, csv_rows, pyarrow_installed, out_arg, out_parquet,
                   csv_df, bad_lines, csv_log, parquet_files, csv_why,
                   csv_skipped>>

\* pq.write_table(table, out_parquet, compression="snappy"); return df
CsvPaWrite ==
    /\ UNCHANGED csvOthers
    /\ vpc = "pa_df"
    /\ parquet_files' = parquet_files \cup {out_parquet}
    /\ vpc' = "returned" /\ csv_reader' = "pyarrow"
    /\ UNCHANGED <<csv_path, csv_rows, pyarrow_installed, out_arg, out_parquet,
                   csv_df, bad_lines, csv_log, csv_why, csv_skipped>>

\* for chunk in pd.read_csv(..., on_bad_lines="skip"): parsed_chunks.append;
\* df = pd.concat(parsed_chunks, ignore_index=True). The malformed lines are
\* skipped by the parser; nothing is appended to bad_lines.
CsvPandasRead ==
    /\ UNCHANGED csvOthers
    /\ vpc = "fallback"
    /\ csv_df' = SelectSeq(csv_rows, IsOk)
    /\ csv_skipped' = CountBad(csv_rows)
    /\ csv_reader' = "pandas"
    /\ vpc' = "loaded"
    /\ UNCHANGED <<csv_path, csv_rows, pyarrow_installed, out_arg, out_parquet,
                   bad_lines, csv_log, parquet_files, csv_why>>

\* except Exception as e: log "Fatal error reading"; raise
CsvPandasFatal ==
    /\ UNCHANGED csvOthers
    /\ vpc = "fallback"
    /\ csv_log' = Append(csv_log, LogEntry("fatal", 0))
    /\ vpc' = "raised"
    /\ UNCHANGED <<csv_path, csv_rows, pyarrow_installed, out_arg, out_parquet,
                   csv_df, bad_lines, parquet_files, csv_reader, csv_why,
                   csv_skipped>>

\* obj_cols coerced to string (logged when there are any);
\* out_parquet = out_parquet or path.replace(".csv", ".parquet")
CsvCoerce ==
    /\ UNCHANGED csvOthers
    /\ vpc = "loaded"
    /\ \E obj_cols \in BOOLEAN :
          csv_log' = IF obj_cols THEN Append(csv_log, LogEntry("coercing", 1))
                     ELSE csv_log
    /\ out_parquet' = OrDefault(out_parquet, csv_path)
    /\ vpc' = "write"
    /\ UNCHANGED <<csv_path, csv_rows, pyarrow_installed, out_arg, csv_df,
                   bad_lines, parquet_files, csv_reader, csv_why, csv_skipped>>

\* df.to_parquet(out_parquet, compression="snappy")
CsvToParquet ==
    /\ UNCHANGED csvOthers
    /\ vpc = "write"
    /\ parquet_files' = parquet_files \cup {out_parquet}
    /\ vpc' = "summary"
    /\ UNCHANGED <<csv_path, csv_rows, pyarrow_installed, out_arg, out_parquet,
                   csv_df, bad_lines, csv_log, csv_reader, csv_why, csv_skipped>>

\* except Exception: log; df = df.astype("string"); the write is tried again
CsvToParquetFails ==
    /\ UNCHANGED csvOthers
    /\ vpc = "write"
    /\ csv_log' = Append(csv_log, LogEntry("write failed", 0))
    /\ vpc' = "rewrite"
    /\ UNCHANGED <<csv_path, csv_rows, pyarrow_installed, out_arg, out_parquet,
                   csv_df, bad_lines, parquet_files, csv_reader, csv_why,
                   csv_skipped>>

\* the second df.to_parquet succeeds
CsvRewrite ==
    /\ UNCHANGED csvOthers
    /\ vpc = "rewrite"
    /\ parquet_files' = parquet_files \cup {out_parquet}
    /\ vpc' = "summary"
    /\ UNCHANGED <<csv_path, csv_rows, pyarrow_installed, out_arg, out_parquet,
                   csv_df, bad_lines, csv_log, csv_reader, csv_why, csv_skipped>>

\* the second df.to_parquet raises: the call raises
CsvRewriteRaises ==
    /\ UNCHANGED csvOthers
    /\ vpc = "rewrite"
    /\ vpc' = "raised"
    /\ UNCHANGED <<csv_path, csv_rows, pyarrow_installed, out_arg, out_parquet,
                   csv_df, bad_lines, csv_log, parquet_files, csv_reader,
                   csv_why, csv_skipped>>

\* log "Loaded n rows"; if bad_lines: log "Skipped n malformed lines"; return
CsvLogSummary ==
    /\ UNCHANGED csvOthers
    /\ vpc = "summary"
    /\ csv_log' = csv_log \o <<LogEntry("loaded", Len(csv_df))>>
                   \o (IF bad_lines # <<>>
                       THEN <<LogEntry("skipped", Len(bad_lines))>> ELSE <<>>)
    /\ vpc' = "returned"
    /\ UNCHANGED <<csv_path, csv_rows, pyarrow_installed, out_arg, out_parquet,
                   csv_df, bad_lines, parquet_files, csv_reader, csv_why,
                   csv_skipped>>

CsvNext ==
    \/ CsvImportFails \/ CsvPaRead \/ CsvPaToPandas \/ CsvPaRaises
    \/ CsvPaWrite
    \/ CsvPandasRead \/ CsvPandasFatal \/ CsvCoerce
    \/ CsvToParquet \/ CsvToParquetFails \/ CsvRewrite \/ CsvRewriteRaises
    \/ CsvLogSummary

SpecCsv == CsvInit /\ [][CsvNext]_vars

\* C12: when the call returns after the pandas reader skipped malformed
\* rows, LOG_PATH holds an entry with the number of skipped rows.
C12_SkippedRowsLogged ==
    (vpc = "returned" /\ csv_skipped > 0) =>
        \E k \in 1..Len(csv_log) : csv_log[k] = LogEntry("skipped", csv_skipped)

\* C13: the pandas reader runs only after PyArrow was found missing or one
\* of its steps raised, and whenever the call has returned a Parquet file
\* has been written at out_parquet (the argument, or by default the input
\* path with ".csv" replaced by ".parquet").
C13_PyArrowFirstParquetWritten ==
    /\ vpc \in {"fallback", "loaded", "write", "rewrite", "summary"} =>
          \/ csv_why = "not installed" /\ ~pyarrow_installed
          \/ csv_why = "raised" /\ pyarrow_installed
    /\ csv_reader = "pandas" => csv_why # "none"
    /\ vpc = "returned" =>
          (IF out_arg = NoneArg THEN DefaultParquet(csv_path) ELSE out_arg)
              \in parquet_files

\* C13 witness: PyArrow is installed, its read raised on a malformed line,
\* pandas loaded the other lines and the call returned, the Parquet file
\* written under the default name.
C13_Witness ==
    /\ vpc = "returned" /\ csv_reader = "pandas" /\ csv_why = "raised"
    /\ csv_skipped > 0 /\ Len(csv_df) > 0
    /\ out_arg = NoneArg
    /\ parquet_files = {<<"wqx", ".parquet", "_v2", ".parquet">>}

(***************************************************************************)
(* Part VI : src/cleanup_unify.py: load, drop the columns matching         *)
(*           drop_patterns, unify_field for each analyte, drop the empty   *)
(*           columns, save.  A column name is <<stem, suffix>>; a table    *)
(*           maps each of its column names to the cells of the column.     *)
(***************************************************************************)
MaxTableRows == 2

Analytes == <<"pH", "Iron", "Temp", "Cond", "Sulfate">>

NumCell(n) == [kind |-> "num", sum |-> n, cnt |-> 1]
NanCell == [kind |-> "nan", sum |-> 0, cnt |-> 0]
TextCell == [kind |-> "text", sum |-> 0, cnt |-> 0]

\* the columns a loaded table may have, with the cells each may hold
InCol(a) == <<a, "In">>
OutCol(a) == <<a, "Out">>
PlainCol(a) == <<a, "">>
TableColumns ==
    {InCol("pH"), OutCol("pH"), OutCol("Iron"),
     <<"Bituminous", "_dist_m">>, <<"index", "_right">>}

CellsOf(c) ==
    IF c = InCol("pH") THEN {NumCell(2), NanCell, TextCell}
    ELSE IF c = OutCol("pH") THEN {NumCell(4), NanCell}
    ELSE IF c = OutCol("Iron") THEN {NumCell(2), NanCell}
    ELSE {NumCell(1)}

Tables(n) ==
    UNION {{t \in [cols -> UNION {[1..n -> CellsOf(c)] : c \in cols}] :
               \A c \in cols : t[c] \in [1..n -> CellsOf(c)]} :
           cols \in SUBSET TableColumns}

NumRows(t) == IF DOMAIN t = {} THEN 0 ELSE Len(t[CHOOSE c \in DOMAIN t : TRUE])

\* str.lower() of a piece of a column name or pattern
Lower(piece) ==
    CASE piece = "In" -> "in"
      [] piece = "Out" -> "out"
      [] piece = "pH" -> "ph"
      [] piece = "Iron" -> "iron"
      [] piece = "Temp" -> "temp"
      [] piece = "Cond" -> "cond"
      [] piece = "Sulfate" -> "sulfate"
      [] piece = "Bituminous" -> "bituminous"
      [] OTHER -> piece

\* re.search(drop_patterns, c): (?i)(in$|out$|_left$|_right$|maintenanc|...)
DropPatternMatches(c) ==
    \/ Lower(c[2]) \in {"in", "out", "_left", "_right"}
    \/ Lower(c[1]) \in {"maintenanc", "organization", "monitoring", "mineral",
                        "point_"}

keep_exceptions == {<<"Bituminous", "_dist_m">>, <<"index", "_right">>}

drop_cols(t) == {c \in DOMAIN t : DropPatternMatches(c) /\ c \notin keep_exceptions}

\* df.drop(columns=...) / selecting columns
Restrict(t, cols) == [c \in cols |-> t[c]]

\* re.fullmatch(prefix + r'(?i)(In|Out)', c), the flag applying to the
\* whole pattern
UnifyMatches(prefix, c) ==
    Lower(c[1]) = Lower(prefix) /\ Lower(c[2]) \in {"in", "out"}

\* pd.to_numeric(cell, errors="coerce")
ToNumeric(cell) == IF cell.kind = "text" THEN NanCell ELSE cell

\* s.mean(axis=1, skipna=True) of one row: the cells of the row as a set of
\* <<column, cell>> pairs; the mean is kept as sum and count
RECURSIVE RowSum(_)
RowSum(pairs) ==
    IF pairs = {} THEN [sum |-> 0, cnt |-> 0]
    ELSE LET p == CHOOSE q \in pairs : TRUE
             r == RowSum(pairs \ {p})
         IN  [sum |-> r.sum + p[2].sum, cnt |-> r.cnt + p[2].cnt]

RowMean(t, cols, k) ==
    LET r == RowSum({<<c, ToNumeric(t[c][k])>> : c \in cols})
    IN  IF r.cnt = 0 THEN NanCell ELSE [kind |-> "num", sum |-> r.sum, cnt |-> r.cnt]

\* unify_field(prefix) on table t
unify_field(t, prefix) ==
    LET cols == {c \in DOMAIN t : UnifyMatches(prefix, c)}
    IN  IF cols = {} THEN t
        ELSE [c \in DOMAIN t \cup {PlainCol(prefix)} |->
                IF c = PlainCol(prefix)
                THEN [k \in 1..NumRows(t) |-> RowMean(t, cols, k)]
                ELSE t[c]]

\* df.dropna(axis=1, how="all")
DropEmptyColumns(t) ==
    Restrict(t, {c \in DOMAIN t : \E k \in 1..Len(t[c]) : t[c][k].kind # "nan"})

UnifyStart ==
    /\ udf \in UNION {Tables(n) : n \in 1..MaxTableRows}
    /\ uloaded = udf /\ upc = "loaded" /\ ua = 1 /\ usaved = NoTable
    /\ re_strict \in BOOLEAN

UnifyInit ==
    UnifyStart /\ MainIdle /\ FetchIdle /\ CsvIdle /\ PickIdle /\ RankIdle /\ SplitIdle

\* df = df.drop(columns=drop_cols, errors="ignore")
UnifyDrop ==
    /\ UNCHANGED unifyOthers
    /\ upc = "loaded"
    /\ udf' = Restrict(udf, DOMAIN udf \ drop_cols(udf))
    /\ upc' = "unify"
    /\ UNCHANGED <<uloaded, ua, usaved, re_strict>>

\* one pass of `for analyte in [...]: unify_field(analyte)`
UnifyField ==
    /\ UNCHANGED unifyOthers
    /\ upc = "unify" /\ ua <= Len(Analytes)
    /\ ~(re_strict /\ DOMAIN udf # {})
    /\ udf' = unify_field(udf, Analytes[ua])
    /\ ua' = ua + 1
    /\ UNCHANGED <<uloaded, upc, usaved, re_strict>>

\* re.fullmatch raises re.error (global flags not at the start of the
\* expression) on the first column it is called for: the script stops
UnifyFieldRaises ==
    /\ UNCHANGED unifyOthers
    /\ upc = "unify" /\ ua <= Len(Analytes)
    /\ re_strict /\ DOMAIN udf # {}
    /\ upc' = "crashed"
    /\ UNCHANGED <<udf, uloaded, ua, usaved, re_strict>>

\* df = df.dropna(axis=1, how="all"); df.to_parquet(out_path)
UnifySave ==
    /\ UNCHANGED unifyOthers
    /\ upc = "unify" /\ ua > Len(Analytes)
    /\ udf' = DropEmptyColumns(udf)
    /\ usaved' = DropEmptyColumns(udf)
    /\ upc' = "saved"
    /\ UNCHANGED <<uloaded, ua, re_strict>>

UnifyNext == UnifyDrop \/ UnifyField \/ UnifyFieldRaises \/ UnifySave

SpecUnify == UnifyInit /\ [][UnifyNext]_vars

\* the In/Out columns of an analyte in a table, and whether they hold a
\* numeric value
InOutCols(t, a) == {c \in DOMAIN t : c \in {InCol(a), OutCol(a)}}

HasNumeric(t, cols) ==
    \E c \in cols : \E k \in 1..Len(t[c]) : ToNumeric(t[c][k]).kind = "num"

\* C14: when the table has been saved, every analyte whose In/Out columns
\* of the loaded table hold at least one numeric value has a column of its
\* own name in the saved table, holding in each row the mean of the row's
\* numeric In/Out values.
C14_UnifiedFieldsRecreated ==
    upc = "saved" =>
        \A j \in 1..Len(Analytes) :
            LET a == Analytes[j]
                cols == InOutCols(uloaded, a)
            IN  HasNumeric(uloaded, cols) =>
                  /\ PlainCol(a) \in DOMAIN usaved
                  /\ \A k \in 1..NumRows(uloaded) :
                        usaved[PlainCol(a)][k] = RowMean(uloaded, cols, k)

(***************************************************************************)
(* Part VII: pick_best(df, candidates, min_nonnull) of pa13_dashboard,     *)
(*           one pass of its loop at a time.                               *)
(***************************************************************************)
MaxPickRows == 2
MaxCands == 3

\* the names that may be columns of df, and the names that may be candidates
PickColumns == {"pH", "pHIn"}
PickNames == PickColumns \cup {"Fe"}

MinNonnulls == {0, 1, 2}

PickCells == {NumCell(1), NanCell, TextCell}

PickTables(n) ==
    UNION {[cols -> [1..n -> PickCells]] : cols \in SUBSET PickColumns}

\* pd.to_numeric(df[c], errors="coerce").notna().sum()
RECURSIVE NumericCount(_)
NumericCount(cells) ==
    IF cells = <<>> THEN 0
    ELSE (IF ToNumeric(Head(cells)).kind = "num" THEN 1 ELSE 0)
         + NumericCount(Tail(cells))

\* n > best_n and n >= min_nonnull
BetterNoMinimum(n, bn, m) == n > bn

Better(n, bn, m) == n > bn /\ n >= m

PickStart ==
    /\ kdf \in UNION {PickTables(n) : n \in 1..MaxPickRows}
    /\ candidates \in SeqsUpTo(PickNames, 0, MaxCands)
    /\ min_nonnull \in MinNonnulls
    /\ kpc = "loop" /\ ki = 1 /\ best = NoName /\ best_n = -1

PickInit ==
    PickStart /\ MainIdle /\ FetchIdle /\ CsvIdle /\ UnifyIdle /\ RankIdle /\ SplitIdle

\* if c not in df.columns: continue
PickSkip ==
    /\ UNCHANGED pickOthers
    /\ kpc = "loop" /\ ki <= Len(candidates)
    /\ candidates[ki] \notin DOMAIN kdf
    /\ ki' = ki + 1
    /\ UNCHANGED <<kdf, candidates, min_nonnull, kpc, best, best_n>>

\* n = ...; if n > best_n and n >= min_nonnull: best, best_n = c, n
PickCount ==
    /\ UNCHANGED pickOthers
    /\ kpc = "loop" /\ ki <= Len(candidates)
    /\ candidates[ki] \in DOMAIN kdf
    /\ LET c == candidates[ki]
           n == NumericCount(kdf[c])
       IN  IF Better(n, best_n, min_nonnull)
           THEN best' = c /\ best_n' = n
           ELSE UNCHANGED <<best, best_n>>
    /\ ki' = ki + 1
    /\ UNCHANGED <<kdf, candidates, min_nonnull, kpc>>

\* return best
PickReturn ==
    /\ UNCHANGED pickOthers
    /\ kpc = "loop" /\ ki > Len(candidates)
    /\ kpc' = "returned"
    /\ UNCHANGED <<kdf, candidates, min_nonnull, ki, best, best_n>>

PickNext == PickSkip \/ PickCount \/ PickReturn

SpecPick == PickInit /\ [][PickNext]_vars

\* the candidates that are columns of df with at least min_nonnull numeric
\* values
Qualifying ==
    {c \in {candidates[j] : j \in 1..Len(candidates)} :
        c \in DOMAIN kdf /\ NumericCount(kdf[c]) >= min_nonnull}

\* C15: the value returned by pick_best is a qualifying candidate with the
\* largest count of numeric values, or None when no candidate qualifies;
\* it is never a name that is not a column of df.
C15_PickBestLargestCount ==
    kpc = "returned" =>
        /\ Qualifying = {} => best = NoName
        /\ Qualifying # {} =>
              /\ best \in Qualifying
              /\ \A c \in Qualifying :
                    NumericCount(kdf[best]) >= NumericCount(kdf[c])
        /\ best # NoName => best \in DOMAIN kdf

\* C15 witness: three candidates, one not a column of df, one with too few
\* numeric values, and the last one, with more, is returned.
C15_Witness ==
    /\ kpc = "returned"
    /\ candidates = <<"Fe", "pHIn", "pH">>
    /\ DOMAIN kdf = {"pH", "pHIn"}
    /\ min_nonnull = 2
    /\ NumericCount(kdf["pHIn"]) = 1 /\ NumericCount(kdf["pH"]) = 2
    /\ best = "pH"

(***************************************************************************)
(* Part VIII: the HUC12 aggregation of watershed_health_huc12 and          *)
(*           watershed_health_huc12_auto: groupby / mean, dense rank cast  *)
(*           to int, sort by Rank.  A mean is kept exactly, as the sum     *)
(*           scaled by MeanScale and divided by the count.                 *)
(***************************************************************************)
MaxRankRecs == 3

RankScripts == {"huc12", "huc12_auto"}

HucOrder == <<"A", "B", "C">>
HucIds == {HucOrder[j] : j \in 1..Len(HucOrder)}

\* Sickness_Index of a record: huc12 leaves NaN where the chemistry score or
\* the inverse distance is missing; huc12_auto starts from 0.0 and adds
\* normalised values, which are never NaN
IndexValues(s) == IF s = "huc12" THEN {NaNV, Val(0), Val(1), Val(2)}
                  ELSE {Val(0), Val(1), Val(2)}

RECURSIVE Factorial(_)
Factorial(n) == IF n <= 1 THEN 1 ELSE n * Factorial(n - 1)

MeanScale == Factorial(MaxRankRecs)

\* the mean of the non-missing Sickness_Index of the records of HUC12 h
RECURSIVE GroupSum(_, _)
GroupSum(recs, h) ==
    IF recs = <<>> THEN [sum |-> 0, cnt |-> 0]
    ELSE LET r == GroupSum(Tail(recs), h)
             x == Head(recs)
         IN  IF x.huc = h /\ ~IsMissing(x.si)
             THEN [sum |-> r.sum + x.si.v, cnt |-> r.cnt + 1]
             ELSE r

GroupMean(recs, h) ==
    LET g == GroupSum(recs, h)
    IN  IF g.cnt = 0 THEN NaNV ELSE Val((g.sum * MeanScale) \div g.cnt)

\* df.groupby(huc_id).agg({... "Sickness_Index": "mean"}).reset_index():
\* one row per HUC12 with records, in key order
GroupBy(recs) ==
    LET InRecs(h) == \E j \in 1..Len(recs) : recs[j].huc = h
        keys == SelectSeq(HucOrder, InRecs)
    IN  [k \in 1..Len(keys) |->
            [huc |-> keys[k], mean |-> GroupMean(recs, keys[k]), Rank |-> 0]]

\* the values of a column of means
MeansGreater(rows, k) ==
    {rows[j].mean.v : j \in {i \in 1..Len(rows) : rows[i].mean.v > rows[k].mean.v}}

\* rank(ascending=False, method="min")
MinRank(rows, k) ==
    1 + Cardinality({i \in 1..Len(rows) : rows[i].mean.v > rows[k].mean.v})

\* rank(ascending=False, method="dense")
DenseRank(rows, k) == 1 + Cardinality(MeansGreater(rows, k))

\* sort_values("Rank"): the orders of the rows that ascend in Rank (the
\* default sort is not stable)
RowOrders(n) ==
    {f \in [1..n -> 1..n] : \A a, b \in 1..n : a # b => f[a] # f[b]}

SortedByRank(rows) ==
    {[k \in 1..Len(rows) |-> rows[f[k]]] : f \in
        {g \in RowOrders(Len(rows)) :
            \A a, b \in 1..Len(rows) :
                a < b => rows[g[a]].Rank <= rows[g[b]].Rank}}

RankStart ==
    /\ rscript \in RankScripts
    /\ rrecs \in SeqsUpTo(UNION {[huc : HucIds, si : IndexValues(s)] :
                                    s \in {rscript}}, 0, MaxRankRecs)
    /\ summary = <<>> /\ rpc = "records"

RankInit ==
    RankStart /\ MainIdle /\ FetchIdle /\ CsvIdle /\ UnifyIdle /\ PickIdle
    /\ SplitIdle

\* summary = df.groupby(huc_id).agg(agg_dict).reset_index()
RankGroupBy ==
    /\ UNCHANGED rankOthers
    /\ rpc = "records"
    /\ summary' = GroupBy(rrecs)
    /\ rpc' = "grouped"
    /\ UNCHANGED <<rscript, rrecs>>

\* summary["Rank"] = summary["Sickness_Index"].rank(...).astype(int)
RankAssign ==
    /\ UNCHANGED rankOthers
    /\ rpc = "grouped"
    /\ \A k \in 1..Len(summary) : ~IsMissing(summary[k].mean)
    /\ summary' = [k \in 1..Len(summary) |->
                      [summary[k] EXCEPT !.Rank = DenseRank(summary, k)]]
    /\ rpc' = "ranked"
    /\ UNCHANGED <<rscript, rrecs>>

\* the rank of a NaN mean is NaN and astype(int) raises: the script stops
RankCastRaises ==
    /\ UNCHANGED rankOthers
    /\ rpc = "grouped"
    /\ \E k \in 1..Len(summary) : IsMissing(summary[k].mean)
    /\ rpc' = "crashed"
    /\ UNCHANGED <<rscript, rrecs, summary>>

\* summary = summary.sort_values("Rank")
RankSort ==
    /\ UNCHANGED rankOthers
    /\ rpc = "ranked"
    /\ summary' \in SortedByRank(summary)
    /\ rpc' = "sorted"
    /\ UNCHANGED <<rscript, rrecs>>

RankNext == RankGroupBy \/ RankAssign \/ RankCastRaises \/ RankSort

SpecRank == RankInit /\ [][RankNext]_vars

Ranks == {summary[k].Rank : k \in 1..Len(summary)}

\* C16: in the sorted summary there is one row per HUC12 with records; a
\* HUC12 with no larger mean index has Rank 1, a larger mean index has a
\* smaller Rank and equal mean indices share their Rank, the ranks in use
\* are 1..K for some K, and the rows ascend in Rank.
C16_DenseDescendingRank ==
    rpc = "sorted" =>
        /\ {summary[k].huc : k \in 1..Len(summary)}
              = {rrecs[j].huc : j \in 1..Len(rrecs)}
        /\ \A k \in 1..Len(summary) :
              /\ summary[k].mean = GroupMean(rrecs, summary[k].huc)
              /\ (\A j \in 1..Len(summary) :
                     summary[j].mean.v <= summary[k].mean.v)
                 => summary[k].Rank = 1
        /\ \A j, k \in 1..Len(summary) :
              /\ summary[j].mean.v > summary[k].mean.v
                    <=> summary[j].Rank < summary[k].Rank
              /\ summary[j].mean.v = summary[k].mean.v
                    <=> summary[j].Rank = summary[k].Rank
        /\ Ranks = 1..Cardinality(Ranks)
        /\ \A j, k \in 1..Len(summary) :
              j < k => summary[j].Rank <= summary[k].Rank

\* C16 witness: three HUC12s, the two with the highest mean index share
\* Rank 1 and the third has Rank 2, its row coming last although its key
\* comes first.
C16_Witness ==
    /\ rpc = "sorted" /\ Len(summary) = 3
    /\ summary[1].Rank = 1 /\ summary[2].Rank = 1 /\ summary[3].Rank = 2
    /\ summary[3].huc = "A"

(***************************************************************************)
(* Part IX : one pass of the chunk loop of mine_proximity_join_pa6 / pa8:  *)
(*           np.array_split, the Parallel call over the parts, the concat  *)
(*           of the results, the sequential fallback, the side-by-side     *)
(*           concat with the chunk.  compute_nearest_chunk is taken as a   *)
(*           function of its arguments: a geometry for which the search    *)
(*           raises does so in every call, and so does a layer for which   *)
(*           the tree cannot be built.                                     *)
(***************************************************************************)
CpuCounts == (1..MaxCpu) \cup {10}

\* N_JOBS: pa6 max(1, os.cpu_count() - 1); pa8 min(8, os.cpu_count() - 1)
N_JOBS(s, cpu) == IF s = "pa6" THEN Max2(1, cpu - 1) ELSE Min2(8, cpu - 1)

SplitGeoms == {NoGeom, InvalidGeom} \cup {Pt(x) : x \in SiteCoords}

\* the body of the row loop of compute_nearest_chunk for one geometry
RowResult(g, feats) ==
    IF g.kind \in {"none", "empty"} THEN [idx |-> NoneV, dist |-> NaNV]
    ELSE IF g.kind = "invalid" THEN [idx |-> NoneV, dist |-> NaNV]
    ELSE LET k == TreeNearest(feats, g)
         IN  [idx |-> Val(IdxMap(k)), dist |-> Val(Dist(g, feats[k]))]

\* compute_nearest_chunk(df_chunk, target_gdf, name): the frame returned
compute_nearest_chunk(rows, feats, tree_ok) ==
    IF tree_ok THEN [k \in 1..Len(rows) |-> RowResult(rows[k], feats)]
    ELSE [k \in 1..Len(rows) |-> [idx |-> NaNV, dist |-> NaNV]]

\* where part j of np.array_split(rows, n) ends: the first len % n parts
\* have len // n + 1 rows, the others len // n
DivPoint(len, n, j) == j * (len \div n) + Min2(j, len % n)

\* an equal division that leaves the remainder out
ArraySplitFloor(rows, n) ==
    [j \in 1..n |-> SubSeq(rows, (j - 1) * (Len(rows) \div n) + 1,
                           j * (Len(rows) \div n))]

\* np.array_split(rows, n)
ArraySplit(rows, n) ==
    [j \in 1..n |-> SubSeq(rows, DivPoint(Len(rows), n, j - 1) + 1,
                           DivPoint(Len(rows), n, j))]

\* pd.concat([chunk.reset_index(drop=True), merged], axis=1): rows paired by
\* position, the shorter frame padded
SideBySide(rows, merged) ==
    [k \in 1..Max2(Len(rows), Len(merged)) |->
        [geom |-> IF k <= Len(rows) THEN rows[k] ELSE NoGeom,
         res |-> IF k <= Len(merged) THEN merged[k]
                 ELSE [idx |-> NaNV, dist |-> NaNV]]]

SplitStart ==
    /\ sscript \in {"pa6", "pa8"}
    /\ scpu \in CpuCounts
    /\ schunk \in SeqsUpTo(SplitGeoms, 1, MaxLen)
    /\ sfeats \in SeqsUpTo(FeatCoords, 1, MaxFeat)
    /\ stree_ok \in BOOLEAN
    /\ spc = "start" /\ splits = <<>> /\ sresults = <<>>
    /\ smerged = <<>> /\ sout = <<>> /\ spath = "none"

SplitInit ==
    SplitStart /\ MainIdle /\ FetchIdle /\ CsvIdle /\ UnifyIdle /\ PickIdle
    /\ RankIdle

\* splits = np.array_split(chunk, N_JOBS)
SplitArray ==
    /\ UNCHANGED splitOthers
    /\ spc = "start" /\ N_JOBS(sscript, scpu) >= 1
    /\ splits' = ArraySplit(schunk, N_JOBS(sscript, scpu))
    /\ spc' = "parallel"
    /\ UNCHANGED <<sscript, scpu, schunk, sfeats, stree_ok, sresults, smerged,
                   sout, spath>>

\* np.array_split(chunk, 0) raises ValueError: except, sequential fallback
SplitArrayRaises ==
    /\ UNCHANGED splitOthers
    /\ spc = "start" /\ N_JOBS(sscript, scpu) < 1
    /\ spc' = "fallback"
    /\ UNCHANGED <<sscript, scpu, schunk, sfeats, stree_ok, splits, sresults,
                   smerged, sout, spath>>

\* Parallel(...)(delayed(compute_nearest_chunk)(s, gdf, name) for s in
\* splits): the result of the next part joins the list, in the order of
\* the parts
SplitWorker ==
    /\ UNCHANGED splitOthers
    /\ spc = "parallel" /\ Len(sresults) < Len(splits)
    /\ sresults' = Append(sresults,
          compute_nearest_chunk(splits[Len(sresults) + 1], sfeats, stree_ok))
    /\ UNCHANGED <<sscript, scpu, schunk, sfeats, stree_ok, spc, splits,
                   smerged, sout, spath>>

\* the Parallel call raises (a worker is lost, a task cannot be pickled)
SplitParallelRaises ==
    /\ UNCHANGED splitOthers
    /\ spc = "parallel" /\ Len(sresults) < Len(splits)
    /\ spc' = "fallback"
    /\ UNCHANGED <<sscript, scpu, schunk, sfeats, stree_ok, splits, sresults,
                   smerged, sout, spath>>

\* merged = pd.concat(results, ignore_index=True)
SplitConcat ==
    /\ UNCHANGED splitOthers
    /\ spc = "parallel" /\ Len(sresults) = Len(splits)
    /\ smerged' = FlattenFrom(sresults, 1)
    /\ spath' = "parallel" /\ spc' = "merged"
    /\ UNCHANGED <<sscript, scpu, schunk, sfeats, stree_ok, splits, sresults,
                   sout>>

\* merged = compute_nearest_chunk(chunk, gdf, name)
SplitSequential ==
    /\ UNCHANGED splitOthers
    /\ spc = "fallback"
    /\ smerged' = compute_nearest_chunk(schunk, sfeats, stree_ok)
    /\ spath' = "sequential" /\ spc' = "merged"
    /\ UNCHANGED <<sscript, scpu, schunk, sfeats, stree_ok, splits, sresults,
                   sout>>

\* out_chunk = pd.concat([chunk.reset_index(drop=True), merged], axis=1)
SplitSideBySide ==
    /\ UNCHANGED splitOthers
    /\ spc = "merged"
    /\ sout' = SideBySide(schunk, smerged)
    /\ spc' = "done"
    /\ UNCHANGED <<sscript, scpu, schunk, sfeats, stree_ok, splits, sresults,
                   smerged, spath>>

SplitNext ==
    \/ SplitArray \/ SplitArrayRaises \/ SplitWorker \/ SplitParallelRaises
    \/ SplitConcat \/ SplitSequential \/ SplitSideBySide

SpecSplit == SplitInit /\ [][SplitNext]_vars

SiteDistance(g, feats) ==
    LET near == NearestWithin(g, feats, SEARCH_RADIUS_M)
    IN  IF near = {} THEN NaNV
        ELSE Val(Dist(g, feats[CHOOSE k \in near : TRUE]))

\* C18: when mine_proximity_join_pa is done, its table has exactly one row
\* per loaded WQX site, in the order of the sites, and every per-layer
\* distance of a row is the distance found for that row's site.
C18_OneRowPerSiteOwnDistances ==
    (pscript = "pa" /\ ppc = "done") =>
        LET loaded == LoadSites("pa", rawSites)
        IN  /\ Len(tab) = Len(loaded)
            /\ \A j \in 1..Min2(Len(tab), Len(loaded)) :
                  /\ tab[j].site = loaded[j].site
                  /\ \A k \in JoinedLayers :
                        tab[j].cells[DistCol(layersG[k].name)]
                            = SiteDistance(loaded[j].geom, layersG[k].feats)

====
